---- MODULE Spec2Model ----
(***************************************************************************)
(* Flow-execution engine of ainsemble_final_updated.py (AinsembleRunner):  *)
(* the three flows flow_signup, flow_signin and flow_reset_password, the   *)
(* interaction primitives find_and_click and enter_text, and the OTP entry *)
(* protocol enter_and_verify_otp.                                          *)
(*                                                                         *)
(* The Remote UI Session (the Appium driver) and the webmail inbox are the *)
(* environment: every lookup, click, key entry, page read and fetch has a  *)
(* nondeterministic outcome, drawn by \E in the action that makes the      *)
(* call.  An outcome that is a transient failure of the session (a lookup  *)
(* that finds nothing, a call that raises, a field that renders something  *)
(* else than what was typed) is a fault; a run has at most MaxFaults of    *)
(* them.  What the application answers (a code accepted or rejected, the   *)
(* next page, how many fields it shows) is unrestricted.                   *)
(*                                                                         *)
(* Spec follows one flow run.  SpecMain follows main(), the three flows    *)
(* one after the other.  The calls the flows are built from are followed   *)
(* statement by statement on their own: SpecCalls (fetch_mailinator_otp,   *)
(* the wait primitives, find_and_click, APKNew.is_logged_in), SpecExtract  *)
(* (the code extracted from an opened message), SpecDetect                 *)
(* (detect_error_message) and SpecAttempt (one attempt of                  *)
(* enter_and_verify_otp on fields of a fixed behaviour, run twice).        *)
(* SpecSignup follows flow_signup for several clock readings, SpecCalls    *)
(* also the best-effort steps of flow_signin, and SpecConcurrent two flows *)
(* that two threads run on one runner.  SpecIdentity follows the address   *)
(* a flow types and the inbox it polls, SpecClear _clear_field_robust      *)
(* iteration by iteration, SpecCalls also enter_text, and SpecHandles the  *)
(* element lookups of the flows against the interface-changing actions.    *)
(***************************************************************************)
EXTENDS Integers, Sequences, FiniteSets, TLC

VARIABLES
    flow,          \* the flow being run: "signup", "signin" or "reset"
    pc,            \* position in the flow (or in enter_and_verify_otp)
    driver,        \* self.driver: "none", "open", "quit"
    quits,         \* number of calls of self.driver.quit() in this run
    step_results,  \* the flow's list step_results
    faults,        \* transient session faults injected so far
    acts,          \* steps so far that looked up, clicked or typed on the session
    response,      \* the application's answer to the last submitted code
    otp,           \* the code returned by fetch_mailinator_otp (<<>> = None)
    otp_ok,        \* return value of enter_and_verify_otp: "none", "true", "false"
    attempt,       \* enter_and_verify_otp: loop variable (0 = not in the call)
    nfields,       \* enter_and_verify_otp: len(elems) when typing
    typed,         \* per discovered field, the send_keys arguments it received
    texts,         \* per field found at the re-read, its rendered text
    entered,       \* enter_and_verify_otp: local `entered`
    clicked,       \* result of find_and_click(.., "Submit", "Submit_OTP")
    submits,       \* successful Submit clicks of the real code in this run
    poller,        \* one call of fetch_mailinator_otp: its locals and its browser
    message,       \* an opened inbox message: page source and the code extracted
    main,          \* main(): its position and the runner's results_* lists
    page,          \* one call of detect_error_message: page source and result
    wait,          \* one call of a wait primitive: its clock, polls and result
    click,         \* one call of find_and_click: its position and its clicks
    login,         \* one call of APKNew.is_logged_in
    prompt,        \* one best-effort step: an optional prompt looked up and clicked
    conc,          \* two flows of one runner run by two threads
    signup,        \* the addresses of a run: clock reading, email_id, reset_email, inbox
    recon,         \* attempts of enter_and_verify_otp on fields of a given behaviour
    handles,       \* the element handles of a flow: the view each was obtained in
    robust,        \* one call of _clear_field_robust
    enter          \* one call of enter_text

vars == <<flow, pc, driver, quits, step_results, faults, acts, response,
          otp, otp_ok, attempt, nfields, typed, texts, entered, clicked, submits,
          poller, message, main, page, wait, click, login, prompt, conc, signup,
          recon,
     handles, robust, enter>>

\* The state of a flow run, and the state of the calls that are verified on
\* their own.
flowVars == <<flow, pc, driver, quits, step_results, faults, acts, response,
              otp, otp_ok, attempt, nfields, typed, texts, entered, clicked, submits>>

unitVars == <<poller, message, main, page, wait, click, login, prompt, conc, signup, recon,
     handles, robust, enter>>

\* What a flow step that calls verify_page_change leaves alone.
unitsButWait == <<poller, message, main, page, click, login, prompt, conc, signup, recon,
     handles, robust, enter>>

notRecon ==
    <<flowVars, poller, message, main, page, wait, click, login, prompt, conc, signup,
      handles, robust, enter>>

\* What a step of flow_signup that assigns email_id leaves alone.
unitsButSignup == <<poller, message, main, page, wait, click, login, prompt, conc, recon,
     handles, robust, enter>>

\* What a step of one of these calls leaves alone.
notPoller == <<flowVars, message, main, page, wait, click, login, prompt, conc, signup, recon,
     handles, robust, enter>>
notMessage == <<flowVars, poller, main, page, wait, click, login, prompt, conc, signup, recon,
     handles, robust, enter>>
notMain == <<poller, message, page, wait, click, login, prompt, conc, signup, recon,
     handles, robust, enter>>
notPage == <<flowVars, poller, message, main, wait, click, login, prompt, conc, signup, recon,
     handles, robust, enter>>
notWait == <<flowVars, poller, message, main, page, click, login, prompt, conc, signup, recon,
     handles, robust, enter>>
notClick == <<flowVars, poller, message, main, page, wait, login, prompt, conc, signup, recon,
     handles, robust, enter>>
notLogin == <<flowVars, poller, message, main, page, wait, click, prompt, conc, signup, recon,
     handles, robust, enter>>
notPrompt == <<flowVars, poller, message, main, page, wait, click, login, conc, signup, recon,
     handles, robust, enter>>
notConc == <<flowVars, poller, message, main, page, wait, click, login, prompt, signup, recon,
     handles, robust, enter>>
notHandles ==
    <<flowVars, poller, message, main, page, wait, click, login, prompt, conc, signup,
      recon, robust, enter>>
notRobust ==
    <<flowVars, poller, message, main, page, wait, click, login, prompt, conc, signup,
      recon, handles, enter>>
notEnter ==
    <<flowVars, poller, message, main, page, wait, click, login, prompt, conc, signup,
      recon, handles, robust>>

otpVars == <<otp, otp_ok, attempt, nfields, typed, texts, entered, clicked, submits>>

---------------------------------------------------------------------------
(* Program constants *)

OTP_MAX_ATTEMPTS == 3

\* "1111"
OTP_NEGATIVE == <<1, 1, 1, 1>>

(* Bounds of the model *)

MaxFaults == 1
MaxFields == 4

\* Characters a field can render: 0 is a blank, 1 and 2 are digits.
Blank == 0
Chars == {Blank, 1, 2}

\* Codes the inbox can deliver (4 digits, as the \d{4} of the fetch).
OtpCodes == {<<1, 2, 1, 2>>, <<2, 1, 2, 2>>}

\* The texts a field can render: empty, one character or two characters.
Texts == {<<>>} \cup {<<c>> : c \in Chars} \cup {<<c, d>> : c \in Chars, d \in Chars}

Min(a, b) == IF a < b THEN a ELSE b

\* fetch_mailinator_otp before it is called.
PollerIdle ==
    [pc |-> "idle", driver |-> "none", quits |-> 0, now |-> 0, max_wait |-> 0,
     interval |-> 0, cycles |-> 0, errors |-> 0, inbox |-> "empty", ret |-> "none"]

\* No message opened yet.
MessageIdle == [pc |-> "idle", html |-> <<>>, otp |-> <<>>]

\* main() not running: the runner as constructed.  report is what the report
\* sink was handed: <<>> while save_results_excel was not called, else the
\* runner's three results lists at the call.
MainIdle ==
    [pc |-> "idle", results |-> [signup |-> <<>>, signin |-> <<>>, reset |-> <<>>],
     report |-> <<>>]

\* detect_error_message not called.
PageIdle == [pc |-> "idle", raises |-> FALSE, source |-> <<>>, result |-> FALSE]

\* No wait primitive called.
WaitIdle ==
    [pc |-> "idle", fn |-> "none", keyword |-> <<>>, timeout |-> 0, now |-> 0,
     polls |-> 0, errors |-> 0, last |-> "none", read |-> <<>>, ret |-> "none"]

\* find_and_click not called.  entries are the statuses the call recorded.
ClickIdle ==
    [pc |-> "idle", env |-> [found |-> FALSE, direct |-> FALSE, gesture |-> FALSE],
     directs |-> 0, gestures |-> 0, recorded |-> "none", ret |-> "none",
     entries |-> <<>>]

\* APKNew.is_logged_in not called.
LoginIdle ==
    [pc |-> "idle", i |-> 0, keyword |-> "none", otp_inputs |-> "none",
     submit_buttons |-> "none", ret |-> "none"]

\* No best-effort step under way.  env is what the session does during the
\* step: `at` is the lookup that finds a control (0: none does), `raises`
\* tells whether the lookups that find nothing raise, `click` whether the
\* click returns.
PromptIdle ==
    [pc |-> "idle", fn |-> "none", env |-> [at |-> 0, raises |-> FALSE, click |-> TRUE],
     tried |-> 0, clicks |-> 0, recorded |-> "none"]

\* The flows that two threads run on one runner.
ConcFlows == {"signup", "signin"}

\* The runner as constructed, no thread started: driver is self.driver (the
\* name of the flow that created the session it refers to), step_no is
\* self.step_no and stepBy the flow that last assigned it; per flow: its
\* position, the stages it ran, the state of the session it created, the
\* sessions it acted on, the sessions it called quit() on, and the writers of
\* the values of self.step_no it read.
ConcIdle ==
    [driver |-> "none", step_no |-> 1, stepBy |-> "init",
     pc |-> [f \in ConcFlows |-> "start"],
     stages |-> [f \in ConcFlows |-> 0],
     session |-> [f \in ConcFlows |-> "none"],
     acted |-> [f \in ConcFlows |-> {}],
     released |-> [f \in ConcFlows |-> {}],
     reads |-> [f \in ConcFlows |-> {}]]

\* What datetime.utcnow() can read when flow_signup computes email_id.
Timestamps == {"20260101T000000", "20260101T000001"}

\* reset_email when main is not given one.  An address is the sequence of
\* the pieces it is put together from, "@" a piece of its own.
DefaultResetEmail == <<"testsampleainsemble", "@", "mailinator.com">>

\* A flow before its first statement: ts is the clock reading that timestamp()
\* will return, reset_email the argument of flow_reset_password; the locals
\* email_id and inbox are not assigned, and polled, the inbox that
\* fetch_mailinator_otp was called with, is <<>> while it was not called.
SignupIdle ==
    [ts |-> "20260101T000000", email_id |-> <<>>, reset_email |-> DefaultResetEmail,
     inbox |-> <<>>, polled |-> <<>>]

\* No attempt run on its own: the code, how the fields behave, what they
\* show, the verdicts of the attempts run so far and, of the last attempt
\* and per field, the number of send_keys calls and the read-backs made in
\* the typing loop.
ReconIdle ==
    [code |-> <<>>, behaviour |-> [clear |-> TRUE, back |-> TRUE, keys |-> "replace"],
     texts |-> <<>>, verdicts |-> <<>>, sends |-> <<>>, reads |-> <<>>]

\* The names under which the flows and enter_and_verify_otp keep handles.
HandleNames ==
    {"el", "otp_inputs", "elems", "pw_fields", "contact_inputs", "social_inputs",
     "allow_btn", "email_field", "password_field", "skip_el", "save_btn"}

\* No flow followed for its handles: its position in the flow and in
\* enter_and_verify_otp (0: not in the call), the loop variable attempt,
\* view, the number of times the view changed, got, per name the view in
\* which the handle it refers to was obtained (-1: not assigned), and late,
\* the uses of a handle obtained in an earlier view.
HandlesIdle ==
    [flow |-> "none", i |-> 0, j |-> 0, attempt |-> 0, view |-> 0,
     got |-> [h \in HandleNames |-> -1], late |-> 0]

\* _clear_field_robust not called: the text of the field, the argument
\* tries, the iterations begun, the calls of el.clear() and of
\* _try_backspaces, the read-backs made (what each showed, or that it
\* raised), the read-back that each call of _try_backspaces followed, and
\* the return value.
RobustIdle ==
    [pc |-> "idle", text |-> <<>>, tries |-> 0, iters |-> 0, clears |-> 0,
     backs |-> 0, reads |-> <<>>, backAfter |-> <<>>, ret |-> "none"]

\* enter_text not called: what the session does during the call, the
\* statuses recorded, the return value.
EnterIdle ==
    [pc |-> "idle", env |-> [click |-> TRUE, clear |-> TRUE, send |-> TRUE, shot |-> TRUE],
     entries |-> <<>>, ret |-> "none"]

\* Every call but the one named is idle.
IdleBut(unit) ==
    /\ IF unit = "poller" THEN TRUE ELSE poller = PollerIdle
    /\ IF unit = "message" THEN TRUE ELSE message = MessageIdle
    /\ IF unit = "main" THEN TRUE ELSE main = MainIdle
    /\ IF unit = "page" THEN TRUE ELSE page = PageIdle
    /\ IF unit = "wait" THEN TRUE ELSE wait = WaitIdle
    /\ IF unit = "click" THEN TRUE ELSE click = ClickIdle
    /\ IF unit = "login" THEN TRUE ELSE login = LoginIdle
    /\ IF unit = "prompt" THEN TRUE ELSE prompt = PromptIdle
    /\ IF unit = "conc" THEN TRUE ELSE conc = ConcIdle
    /\ IF unit = "signup" THEN TRUE ELSE signup = SignupIdle
    /\ IF unit = "recon" THEN TRUE ELSE recon = ReconIdle
    /\ IF unit = "handles" THEN TRUE ELSE handles = HandlesIdle
    /\ IF unit = "robust" THEN TRUE ELSE robust = RobustIdle
    /\ IF unit = "enter" THEN TRUE ELSE enter = EnterIdle

---------------------------------------------------------------------------
(* StepResult records and record(). *)

\* An entry of a results list.  The details are kept where they carry a
\* datum of the run (the value enter_text typed, the address of a completed
\* sign-up); the fixed texts are left out (<<>>).
RecWith(step, status, details) == [step |-> step, status |-> status, details |-> details]

Rec(step, status) == RecWith(step, status, <<>>)

\* Mutant of record_details: the entry is put in front of the list.
record_details_InFront(results_list, step, status, details) ==
    <<RecWith(step, status, details)>> \o results_list

\* results_list.append({time, step, status, details})
record_details(results_list, step, status, details) ==
    Append(results_list, RecWith(step, status, details))

\* record() called without details (details = "" or a fixed text)
record(results_list, step, status) == record_details(results_list, step, status, <<>>)

HasFail(results_list) ==
    \E i \in 1..Len(results_list) : results_list[i].status = "FAIL"

LastStatus(results_list) ==
    IF results_list = <<>> THEN "NONE" ELSE results_list[Len(results_list)].status

\* The list holds an entry of this step with this status.
HasEntry(results_list, step, status) ==
    \E i \in 1..Len(results_list) :
        results_list[i].step = step /\ results_list[i].status = status

---------------------------------------------------------------------------
(* Interaction primitives. *)

\* find_and_click: found = find_by_text returned an element, direct = el.click()
\* did not raise, gesture = the clickGesture fallback did not raise.
ClickEnvs == [found : BOOLEAN, direct : BOOLEAN, gesture : BOOLEAN]

ClickCost(e) == IF e.found /\ e.direct THEN 0 ELSE 1

find_and_click_ok(e) == e.found /\ (e.direct \/ e.gesture)

find_and_click(results_list, label, e) ==
    record(results_list, label, IF find_and_click_ok(e) THEN "PASS" ELSE "FAIL")

\* enter_text: click = el.click() did not raise, send = el.send_keys(value) did
\* not raise; an exception of el.clear() is swallowed.
EnterEnvs == [click : BOOLEAN, send : BOOLEAN]

EnterCost(e) == IF e.click /\ e.send THEN 0 ELSE 1

enter_text_ok(e) == e.click /\ e.send

\* f"Entered: {value}" and f"Enter failed: {e}".  A text is the sequence of
\* the pieces it is put together from.
EnteredDetails(value) == <<"Entered: ">> \o value

EnterFailedDetails == <<"Enter failed: ">>

enter_text(results_list, value, label, e) ==
    IF enter_text_ok(e)
    THEN record_details(results_list, label, "PASS", EnteredDetails(value))
    ELSE record_details(results_list, label, "FAIL", EnterFailedDetails)

\* The application's answer to a submitted form or code.
Responses == {"rejected", "accepted"}

\* A click that succeeded submits the page and the application answers; a
\* click that failed leaves the page as it was.
Answer(e, answer, before) == IF find_and_click_ok(e) THEN answer ELSE before

\* detect_error_message(): the page shows an error keyword exactly while the
\* application's answer to the last submit is a rejection.
detect_error_message(shown) == shown = "rejected"

\* Faults still available to the environment.
Budget == MaxFaults - faults

---------------------------------------------------------------------------
(* Leaving a flow. *)

\* Mutant of Finally: the flow returns without calling quit().
Finally_NoQuit(results_list, quitsBefore) ==
    /\ step_results' = results_list
    /\ quits' = quitsBefore
    /\ driver' = driver
    /\ pc' = "done"

\* The `finally` clause of a flow: quit() once more (an exception of it is
\* swallowed), store and return step_results.
Finally(results_list, quitsBefore) ==
    /\ step_results' = results_list
    /\ quits' = quitsBefore + 1
    /\ driver' = "quit"
    /\ pc' = "done"

\* An early return of flow_signin: quit() inside try/except, then the finally.
SigninEarlyReturn(results_list) == Finally(results_list, quits + 1)

Init ==
    /\ flow \in {"signup", "signin", "reset"}
    /\ pc = "start"
    /\ driver = "none"
    /\ quits = 0
    /\ step_results = <<>>
    /\ faults = 0
    /\ acts = 0
    /\ response = "none"
    /\ otp = <<>>
    /\ otp_ok = "none"
    /\ attempt = 0
    /\ nfields = 0
    /\ typed = <<>>
    /\ texts = <<>>
    /\ entered = <<>>
    /\ clicked = FALSE
    /\ submits = 0
    /\ IdleBut("none")

FirstPc(f) ==
    CASE f = "signup" -> "su_find_email"
      [] f = "signin" -> "si_open"
      [] f = "reset" -> "rs_open"

\* self.driver = driver_factory(); step_results = []  (outside the try)
FlowStart ==
    /\ pc = "start"
    /\ UNCHANGED unitVars
    /\ \/ /\ driver' = "open"
          /\ pc' = FirstPc(flow)
       \/ /\ driver' = driver
          /\ pc' = "raised"
    /\ UNCHANGED <<flow, quits, step_results, faults, acts, response>>
    /\ UNCHANGED otpVars

---------------------------------------------------------------------------
(* enter_and_verify_otp *)

\* str.strip(): drop leading and trailing blanks.
RECURSIVE LStrip(_)
LStrip(t) ==
    IF t = <<>> THEN t
    ELSE IF Head(t) = Blank THEN LStrip(Tail(t)) ELSE t

RECURSIVE RStrip(_)
RStrip(t) ==
    IF t = <<>> THEN t
    ELSE IF t[Len(t)] = Blank THEN RStrip(SubSeq(t, 1, Len(t) - 1)) ELSE t

Strip(t) == RStrip(LStrip(t))

\* Mutant of ReadFirstChar: the whole rendered value is read.
ReadFirstChar_Whole(t) == Strip(t)

\* (el.get_attribute("text") or el.text or "").strip()[:1]
ReadFirstChar(t) == SubSeq(Strip(t), 1, Min(1, Len(Strip(t))))

\* otp[:4]
Code4(code) == SubSeq(code, 1, Min(4, Len(code)))

\* The loop of the re-read: for i in range(4): if i < len(elems): entered += ...
RECURSIVE EnteredUpTo(_, _)
EnteredUpTo(ts, k) ==
    IF k = 0 THEN <<>> ELSE EnteredUpTo(ts, k - 1) \o ReadFirstChar(ts[k])

Entered(ts) == EnteredUpTo(ts, Min(4, Len(ts)))

\* The complete rendered values of the OTP fields, blanks stripped, concatenated.
RECURSIVE RenderedUpTo(_, _)
RenderedUpTo(ts, k) ==
    IF k = 0 THEN <<>> ELSE RenderedUpTo(ts, k - 1) \o Strip(ts[k])

Rendered(ts) == RenderedUpTo(ts, Len(ts))

\* Fields that get a digit: for i, ch in enumerate(otp[:4]): if i < len(elems)
TypedFields(n, code) == 1..Min(n, Len(Code4(code)))

\* What field i receives: send_keys(ch) once, a second time after a read-back
\* that differs ("retyped"), or nothing when its click or send_keys raised.
KeysSent(i, n, code, how) ==
    IF i \notin TypedFields(n, code) THEN <<>>
    ELSE CASE how = "once" -> << <<code[i]>> >>
           [] how = "retyped" -> << <<code[i]>>, <<code[i]>> >>
           [] how = "raised" -> <<>>

\* The text a field shows when the session is faithful: the last key it got.
FaithfulText(keys) == IF keys = <<>> THEN <<>> ELSE keys[Len(keys)]

\* Mutant of MoreAttempts: the loop runs one iteration too many.
MoreAttempts_OneMore(a) == a <= OTP_MAX_ATTEMPTS

\* for attempt in range(1, OTP_MAX_ATTEMPTS + 1): is there another iteration?
MoreAttempts(a) == a < OTP_MAX_ATTEMPTS

\* The flow's continuation after enter_and_verify_otp returns.
OtpReturnPc(f) == IF f = "signup" THEN "su_after_otp" ELSE "rs_after_otp"

\* `continue` / end of the loop body: next iteration or fall out of the loop.
\* The locals of the iteration are dead from here on and are cleared.
NextAttempt ==
    /\ IF MoreAttempts(attempt)
       THEN /\ attempt' = attempt + 1
            /\ pc' = "otp_enter"
       ELSE /\ attempt' = attempt
            /\ pc' = "otp_exhausted"
    /\ nfields' = 0
    /\ typed' = <<>>
    /\ texts' = <<>>
    /\ entered' = <<>>
    /\ clicked' = FALSE

SubsetsUpTo(S, k) == {F \in SUBSET S : Cardinality(F) <= k}

\* One attempt up to the comparison: query the fields, clear them, type the
\* digits with read-back, re-query and read `entered`.  The page shows the
\* same number of fields at both queries.
OtpEnter ==
    /\ pc = "otp_enter"
    /\ UNCHANGED unitVars
    /\ acts' = acts + 1
    /\ \/ \* a find_elements call raises: except Exception -> WARN, next attempt
          /\ Budget >= 1
          /\ faults' = faults + 1
          /\ step_results' = record(step_results, "OTP Entry Error", "WARN")
          /\ NextAttempt
       \/ \E n \in 0..MaxFields :
          \E TF \in SubsetsUpTo(TypedFields(n, otp), Budget) :
          \E how \in [TF -> {"retyped", "raised"}] :
          \E XF \in SubsetsUpTo(1..Min(n, 4), Budget - Cardinality(TF)) :
          \E glitch \in [XF -> Texts] :
            LET keys == [i \in 1..n |->
                           KeysSent(i, n, otp, IF i \in TF THEN how[i] ELSE "once")]
                shown == [i \in 1..n |->
                           IF i \in XF THEN glitch[i] ELSE FaithfulText(keys[i])]
            IN /\ \A i \in XF : glitch[i] # FaithfulText(keys[i])
               /\ faults' = faults + Cardinality(TF) + Cardinality(XF)
               /\ nfields' = n
               /\ typed' = keys
               /\ texts' = shown
               /\ entered' = Entered(shown)
               /\ pc' = "otp_check"
               /\ UNCHANGED <<attempt, step_results, clicked>>
    /\ UNCHANGED <<flow, driver, quits, response, otp, otp_ok, submits>>

\* if entered == otp[:4]: screenshot, find_and_click("Submit") (its result is
\* dropped); else: WARN "OTP Mismatch".  A click that succeeded submits the
\* code and the application answers.
OtpSubmit ==
    /\ pc = "otp_check"
    /\ UNCHANGED unitVars
    /\ IF entered = Code4(otp)
       THEN \E e \in ClickEnvs, answer \in Responses :
              /\ ClickCost(e) <= Budget
              /\ faults' = faults + ClickCost(e)
              /\ step_results' = find_and_click(step_results, "Submit_OTP", e)
              /\ clicked' = find_and_click_ok(e)
              /\ submits' = submits + (IF find_and_click_ok(e) THEN 1 ELSE 0)
              /\ response' = Answer(e, answer, response)
              /\ acts' = acts + 1
              /\ pc' = "otp_detect"
              /\ UNCHANGED <<attempt, nfields, typed, texts, entered>>
       ELSE /\ step_results' = record(step_results, "OTP Mismatch", "WARN")
            /\ NextAttempt
            /\ UNCHANGED <<faults, submits, acts, response>>
    /\ UNCHANGED <<flow, driver, quits, otp, otp_ok>>

\* if self.detect_error_message(): WARN, continue; else PASS, return True.
OtpDetect ==
    /\ pc = "otp_detect"
    /\ UNCHANGED unitVars
    /\ IF detect_error_message(response)
       THEN /\ step_results' = record(step_results, "OTP Validation", "WARN")
            /\ NextAttempt
            /\ UNCHANGED otp_ok
       ELSE /\ step_results' = record(step_results, "OTP Validation", "PASS")
            /\ otp_ok' = "true"
            /\ pc' = OtpReturnPc(flow)
            /\ attempt' = 0
            /\ nfields' = 0
            /\ typed' = <<>>
            /\ texts' = <<>>
            /\ entered' = <<>>
            /\ clicked' = FALSE
    /\ UNCHANGED <<flow, driver, quits, faults, acts, response, otp, submits>>

\* After the loop: FAIL "All attempts failed", return False.
OtpExhausted ==
    /\ pc = "otp_exhausted"
    /\ UNCHANGED unitVars
    /\ step_results' = record(step_results, "OTP Validation", "FAIL")
    /\ otp_ok' = "false"
    /\ pc' = OtpReturnPc(flow)
    /\ attempt' = 0
    /\ nfields' = 0
    /\ typed' = <<>>
    /\ texts' = <<>>
    /\ entered' = <<>>
    /\ clicked' = FALSE
    /\ UNCHANGED <<flow, driver, quits, faults, acts, response, otp, submits>>

---------------------------------------------------------------------------
(* flow_signup *)

\* except Exception: FAIL "Sign-Up Flow", screenshot; then the finally clause.
SignupExcept(results_list) ==
    Finally(record(results_list, "Sign-Up Flow", "FAIL"), quits)

\* email_template.format(ts=timestamp())
EmailId(ts) == <<"testsample", ts, "@", "mailinator.com">>

\* Mutant of SplitFirst: the whole address is the inbox.
SplitFirst_Whole(address) == address

\* address.split("@")[0]: what stands before the first "@", the whole text
\* when it holds none.
RECURSIVE SplitFirst(_)
SplitFirst(address) ==
    IF address = <<>> \/ Head(address) = "@" THEN <<>>
    ELSE <<Head(address)>> \o SplitFirst(Tail(address))

\* Launch screenshot; email_id; inbox; poll for the first EditText for 10 s;
\* not found: FAIL "Enter Email" and return.
SignupFindEmail ==
    /\ pc = "su_find_email"
    /\ UNCHANGED unitsButSignup
    /\ signup' = [signup EXCEPT !.email_id = EmailId(signup.ts),
                                !.inbox = SplitFirst(EmailId(signup.ts))]
    /\ acts' = acts + 1
    /\ \/ /\ pc' = "su_enter_email"
          /\ UNCHANGED <<driver, quits, step_results>>
       \/ Finally(record(step_results, "Enter Email", "FAIL"), quits)
    /\ UNCHANGED <<flow, faults, response>>
    /\ UNCHANGED otpVars

\* enter_text(el, email_id, "Signup_Email"); find_and_click("Submit"): both
\* results are dropped.
SignupEnterEmail ==
    /\ pc = "su_enter_email"
    /\ UNCHANGED unitVars
    /\ acts' = acts + 1
    /\ \E e \in EnterEnvs, c \in ClickEnvs :
        /\ EnterCost(e) + ClickCost(c) <= Budget
        /\ faults' = faults + EnterCost(e) + ClickCost(c)
        /\ step_results' =
             find_and_click(enter_text(step_results, signup.email_id, "Signup_Email", e),
                            "Signup_Submit_Email", c)
    /\ pc' = "su_negative"
    /\ UNCHANGED <<flow, driver, quits, response>>
    /\ UNCHANGED otpVars

\* Negative OTP once: type OTP_NEGATIVE into the fields (exceptions swallowed),
\* find_and_click("Submit"), then PASS "Negative OTP" whatever happened.
SignupNegativeOtp ==
    /\ pc = "su_negative"
    /\ UNCHANGED unitVars
    /\ acts' = acts + 1
    /\ \/ \* find_elements raises
          /\ Budget >= 1
          /\ faults' = faults + 1
          /\ SignupExcept(step_results)
          /\ UNCHANGED response
       \/ \E c \in ClickEnvs, answer \in Responses :
            /\ ClickCost(c) <= Budget
            /\ faults' = faults + ClickCost(c)
            /\ response' = Answer(c, answer, "none")
            /\ step_results' =
                 record(find_and_click(step_results, "Signup_Submit_Invalid_OTP", c),
                        "Negative OTP", "PASS")
            /\ pc' = "su_fetch"
            /\ UNCHANGED <<driver, quits>>
    /\ UNCHANGED flow
    /\ UNCHANGED otpVars

\* otp = self.fetch_mailinator_otp(inbox): the poller returns None or a code,
\* or ends by the exception of its last quit().
SignupFetchOtp ==
    /\ pc = "su_fetch"
    /\ UNCHANGED unitsButSignup
    /\ signup' = [signup EXCEPT !.polled = signup.inbox]
    /\ \/ \E code \in {<<>>} \cup OtpCodes :
            /\ otp' = code
            /\ pc' = "su_fetched"
            /\ UNCHANGED <<driver, quits, step_results, faults>>
       \/ /\ Budget >= 1
          /\ faults' = faults + 1
          /\ SignupExcept(step_results)
          /\ UNCHANGED otp
    /\ UNCHANGED <<flow, acts, response, otp_ok, attempt,
                   nfields, typed, texts, entered, clicked, submits>>

\* if not otp: FAIL "Fetch OTP" and return; else call
\* enter_and_verify_otp(step_results, otp).
SignupCheckOtp ==
    /\ pc = "su_fetched"
    /\ UNCHANGED unitVars
    /\ IF otp = <<>>
       THEN /\ Finally(record(step_results, "Fetch OTP", "FAIL"), quits)
            /\ UNCHANGED attempt
       ELSE /\ attempt' = 1
            /\ pc' = "otp_enter"
            /\ UNCHANGED <<driver, quits, step_results>>
    /\ UNCHANGED <<flow, faults, acts, response, otp, otp_ok,
                   nfields, typed, texts, entered, clicked, submits>>

\* Mutant of HaltOnOtpFailure: the flow goes on whatever the protocol returned.
HaltOnOtpFailure_Never(ok) == FALSE

\* if not ok: does the flow stop after enter_and_verify_otp?
HaltOnOtpFailure(ok) == ok # "true"

\* ok = self.enter_and_verify_otp(..); if not ok: FAIL "Signup" and return.
SignupAfterOtp ==
    /\ pc = "su_after_otp"
    /\ UNCHANGED unitVars
    /\ IF HaltOnOtpFailure(otp_ok)
       THEN Finally(record(step_results, "Signup", "FAIL"), quits)
       ELSE /\ pc' = "su_password"
            /\ UNCHANGED <<driver, quits, step_results>>
    /\ UNCHANGED <<flow, faults, acts, response>>
    /\ UNCHANGED otpVars

\* pw_fields = find_elements(EditText); fewer than 2: FAIL "Password Page" and
\* return; else two enter_text and find_and_click("Save").
SignupPassword ==
    /\ pc = "su_password"
    /\ UNCHANGED unitVars
    /\ acts' = acts + 1
    /\ \/ /\ Budget >= 1
          /\ faults' = faults + 1
          /\ SignupExcept(step_results)
       \/ /\ Finally(record(step_results, "Password Page", "FAIL"), quits)
          /\ UNCHANGED faults
       \/ \E e1 \in EnterEnvs, e2 \in EnterEnvs, c \in ClickEnvs :
            /\ EnterCost(e1) + EnterCost(e2) + ClickCost(c) <= Budget
            /\ faults' = faults + EnterCost(e1) + EnterCost(e2) + ClickCost(c)
            /\ step_results' =
                 find_and_click(
                   enter_text(enter_text(step_results, <<"Dharma@999">>,
                                         "Signup_Password", e1),
                              <<"Dharma@999">>, "Signup_ConfirmPassword", e2),
                   "Signup_SavePassword", c)
            /\ pc' = "su_profile"
            /\ UNCHANGED <<driver, quits>>
    /\ UNCHANGED <<flow, response>>
    /\ UNCHANGED otpVars

\* contact_inputs = find_elements(EditText); with 2 or more: two enter_text;
\* find_and_click("Next"); detect_error_message(): FAIL "Profile" and return.
SignupProfile ==
    /\ pc = "su_profile"
    /\ UNCHANGED unitVars
    /\ acts' = acts + 1
    /\ \/ /\ Budget >= 1
          /\ faults' = faults + 1
          /\ SignupExcept(step_results)
          /\ UNCHANGED response
       \/ \E two \in BOOLEAN, e1 \in EnterEnvs, e2 \in EnterEnvs,
             c \in ClickEnvs, answer \in Responses :
            LET cost == (IF two THEN EnterCost(e1) + EnterCost(e2) ELSE 0)
                        + ClickCost(c)
                r1 == IF two
                      THEN enter_text(enter_text(step_results, <<"Test">>,
                                                 "Contact_Name", e1),
                                      <<"+18558404823">>, "Contact_Phone", e2)
                      ELSE step_results
                r2 == find_and_click(r1, "Signup_Profile_Next", c)
            IN /\ cost <= Budget
               /\ faults' = faults + cost
               /\ response' = Answer(c, answer, response)
               /\ IF detect_error_message(response')
                  THEN Finally(record(r2, "Profile", "FAIL"), quits)
                  ELSE /\ step_results' = r2
                       /\ pc' = "su_social"
                       /\ UNCHANGED <<driver, quits>>
    /\ UNCHANGED flow
    /\ UNCHANGED otpVars

\* Mutant of CompletedDetails: the address reported is the template.
CompletedDetails_Template(email_id) == <<"Completed for ">> \o EmailId("{ts}")

\* f"Completed for {email_id}"
CompletedDetails(email_id) == <<"Completed for ">> \o email_id

\* for i in range(min(2, len(social_inputs))): enter_text(.., "Social_Link_i")
RECURSIVE SocialLinks(_, _, _)
SocialLinks(results_list, k, es) ==
    IF k = 0 THEN results_list
    ELSE enter_text(SocialLinks(results_list, k - 1, es),
                    IF k = 1 THEN <<"https://social0.com/test">>
                    ELSE <<"https://social1.com/test">>,
                    IF k = 1 THEN "Social_Link_1" ELSE "Social_Link_2", es[k])

\* social_inputs = find_elements(EditText); up to two enter_text;
\* find_and_click("Next"); PASS "Sign-Up Flow"; the finally clause.
SignupSocial ==
    /\ pc = "su_social"
    /\ UNCHANGED unitVars
    /\ acts' = acts + 1
    /\ \/ /\ Budget >= 1
          /\ faults' = faults + 1
          /\ SignupExcept(step_results)
       \/ \E k \in 0..2, es \in [1..2 -> EnterEnvs], c \in ClickEnvs :
            LET cost == (IF k >= 1 THEN EnterCost(es[1]) ELSE 0)
                        + (IF k >= 2 THEN EnterCost(es[2]) ELSE 0)
                        + ClickCost(c)
                r == find_and_click(SocialLinks(step_results, k, es),
                                    "Signup_Social_Next", c)
            IN /\ cost <= Budget
               /\ faults' = faults + cost
               /\ Finally(record_details(r, "Sign-Up Flow", "PASS",
                                         CompletedDetails(signup.email_id)),
                          quits)
    /\ UNCHANGED <<flow, response>>
    /\ UNCHANGED otpVars

---------------------------------------------------------------------------
(* flow_reset_password *)

\* except Exception: FAIL "Reset Password Flow", screenshot; then the finally.
ResetExcept(results_list, quitsBefore) ==
    Finally(record(results_list, "Reset Password Flow", "FAIL"), quitsBefore)

\* An early return of flow_reset_password: self.driver.quit() outside any
\* inner try, return step_results, then the finally clause.  quitOk = the
\* explicit quit() did not raise; when it raises the outer handler runs.
ResetEarlyReturn(results_list, quitOk) ==
    IF quitOk
    THEN Finally(results_list, quits + 1)
    ELSE ResetExcept(results_list, quits + 1)

QuitCost(quitOk) == IF quitOk THEN 0 ELSE 1

\* The keywords flow_reset_password waits for.
EnterOtpKw == <<"E", "n", "t", "e", "r", " ", "O", "T", "P">>
ResetPasswordKw == <<"R", "e", "s", "e", "t", " ", "p", "a", "s", "s", "w", "o", "r", "d">>
SignInKw == <<"S", "i", "g", "n", " ", "I", "n">>

\* What verify_page_change returns: True, or False at its deadline.
VerifyReturns == {"true", "absent"}

\* A call of verify_page_change made by a flow, reduced to its keyword and
\* its return value.
Verified(keyword, ret) ==
    [WaitIdle EXCEPT !.pc = "returned", !.fn = "verify_page_change",
                     !.keyword = keyword, !.ret = ret]

\* Mutant of PageNotLoaded: the result of the wait is ignored.
PageNotLoaded_Never(ret) == FALSE

\* if not self.verify_page_change(..):
PageNotLoaded(ret) == ret # "true"

\* Launch screenshot; find_and_click("Sign In"); find_and_click("Reset
\* Password"): both results are dropped.
ResetOpen ==
    /\ pc = "rs_open"
    /\ UNCHANGED unitVars
    /\ acts' = acts + 1
    /\ \E c1 \in ClickEnvs, c2 \in ClickEnvs :
        /\ ClickCost(c1) + ClickCost(c2) <= Budget
        /\ faults' = faults + ClickCost(c1) + ClickCost(c2)
        /\ step_results' =
             find_and_click(find_and_click(step_results, "Reset_Open_SignIn", c1),
                            "Reset_Open_Reset", c2)
    /\ pc' = "rs_email"
    /\ UNCHANGED <<flow, driver, quits, response>>
    /\ UNCHANGED otpVars

\* try: find_element(EditText); enter_text(..) except: FAIL "Reset_Email",
\* quit, return.  Then find_and_click("Submit").
ResetEmail ==
    /\ pc = "rs_email"
    /\ UNCHANGED unitVars
    /\ acts' = acts + 1
    /\ \/ \E quitOk \in BOOLEAN :
            /\ QuitCost(quitOk) <= Budget
            /\ faults' = faults + QuitCost(quitOk)
            /\ ResetEarlyReturn(record(step_results, "Reset_Email", "FAIL"), quitOk)
            /\ UNCHANGED response
       \/ \E e \in EnterEnvs, c \in ClickEnvs, answer \in Responses :
            /\ EnterCost(e) + ClickCost(c) <= Budget
            /\ faults' = faults + EnterCost(e) + ClickCost(c)
            /\ response' = Answer(c, answer, response)
            /\ step_results' =
                 find_and_click(enter_text(step_results, signup.reset_email,
                                           "Reset_Email", e),
                                "Reset_Submit", c)
            /\ pc' = "rs_wait_otp"
            /\ UNCHANGED <<driver, quits>>
    /\ UNCHANGED flow
    /\ UNCHANGED otpVars

\* if not self.verify_page_change("Enter OTP", 20): FAIL "OTP Page", quit,
\* return.
ResetWaitOtpPage ==
    /\ pc = "rs_wait_otp"
    /\ UNCHANGED unitsButWait
    /\ \E ret \in VerifyReturns :
        /\ wait' = Verified(EnterOtpKw, ret)
        /\ IF PageNotLoaded(ret)
           THEN \E quitOk \in BOOLEAN :
                  /\ QuitCost(quitOk) <= Budget
                  /\ faults' = faults + QuitCost(quitOk)
                  /\ ResetEarlyReturn(record(step_results, "OTP Page", "FAIL"), quitOk)
           ELSE /\ pc' = "rs_fetch"
                /\ UNCHANGED <<driver, quits, step_results, faults>>
    /\ UNCHANGED <<flow, acts, response>>
    /\ UNCHANGED otpVars

\* inbox = reset_email.split("@")[0]; otp = self.fetch_mailinator_otp(inbox):
\* the poller returns None or a code, or ends by the exception of its last
\* quit().
ResetFetchOtp ==
    /\ pc = "rs_fetch"
    /\ UNCHANGED unitsButSignup
    /\ signup' = [signup EXCEPT !.inbox = SplitFirst(signup.reset_email),
                                !.polled = SplitFirst(signup.reset_email)]
    /\ \/ \E code \in {<<>>} \cup OtpCodes :
            /\ otp' = code
            /\ pc' = "rs_fetched"
            /\ UNCHANGED <<driver, quits, step_results, faults>>
       \/ /\ Budget >= 1
          /\ faults' = faults + 1
          /\ ResetExcept(step_results, quits)
          /\ UNCHANGED otp
    /\ UNCHANGED <<flow, acts, response, otp_ok, attempt,
                   nfields, typed, texts, entered, clicked, submits>>

\* if not otp: FAIL "Fetch OTP", screenshot, quit, return; else call
\* enter_and_verify_otp(step_results, otp).
ResetCheckOtp ==
    /\ pc = "rs_fetched"
    /\ UNCHANGED unitVars
    /\ IF otp = <<>>
       THEN /\ \E quitOk \in BOOLEAN :
                 /\ QuitCost(quitOk) <= Budget
                 /\ faults' = faults + QuitCost(quitOk)
                 /\ ResetEarlyReturn(record(step_results, "Fetch OTP", "FAIL"), quitOk)
            /\ UNCHANGED attempt
       ELSE /\ attempt' = 1
            /\ pc' = "otp_enter"
            /\ UNCHANGED <<driver, quits, step_results, faults>>
    /\ UNCHANGED <<flow, acts, response, otp, otp_ok,
                   nfields, typed, texts, entered, clicked, submits>>

\* otp_ok = self.enter_and_verify_otp(..); if not otp_ok: FAIL "OTP
\* Validation", quit, return.
ResetAfterOtp ==
    /\ pc = "rs_after_otp"
    /\ UNCHANGED unitVars
    /\ IF HaltOnOtpFailure(otp_ok)
       THEN \E quitOk \in BOOLEAN :
              /\ QuitCost(quitOk) <= Budget
              /\ faults' = faults + QuitCost(quitOk)
              /\ ResetEarlyReturn(record(step_results, "OTP Validation", "FAIL"),
                                  quitOk)
       ELSE /\ pc' = "rs_password_page"
            /\ UNCHANGED <<driver, quits, step_results, faults>>
    /\ UNCHANGED <<flow, acts, response>>
    /\ UNCHANGED otpVars

\* verify_page_change("Reset password", 15) false: FAIL "Password Page", quit,
\* return.  pw_fields = find_elements(EditText); fewer than 2: FAIL "Password
\* Fields", quit, return.  The block that generates and types the new password
\* sits after that return, inside the if, and never runs.
ResetPasswordPage ==
    /\ pc = "rs_password_page"
    /\ UNCHANGED unitsButWait
    /\ \E ret \in VerifyReturns :
        /\ wait' = Verified(ResetPasswordKw, ret)
        /\ IF PageNotLoaded(ret)
           THEN \E quitOk \in BOOLEAN :
                  /\ QuitCost(quitOk) <= Budget
                  /\ faults' = faults + QuitCost(quitOk)
                  /\ ResetEarlyReturn(record(step_results, "Password Page", "FAIL"),
                                      quitOk)
                  /\ UNCHANGED acts
           ELSE \/ \* find_elements raises
                   /\ Budget >= 1
                   /\ faults' = faults + 1
                   /\ acts' = acts + 1
                   /\ ResetExcept(step_results, quits)
                \/ \E quitOk \in BOOLEAN :
                     /\ QuitCost(quitOk) <= Budget
                     /\ faults' = faults + QuitCost(quitOk)
                     /\ acts' = acts + 1
                     /\ ResetEarlyReturn(
                          record(step_results, "Password Fields", "FAIL"), quitOk)
                \/ /\ acts' = acts + 1
                   /\ pc' = "rs_save"
                   /\ UNCHANGED <<driver, quits, step_results, faults>>
    /\ UNCHANGED <<flow, response>>
    /\ UNCHANGED otpVars

\* try: find_element("Save & Continue").click(); PASS "Click_SaveContinue"
\* except: FAIL "Click_SaveContinue", quit, return.
ResetSave ==
    /\ pc = "rs_save"
    /\ UNCHANGED unitVars
    /\ acts' = acts + 1
    /\ \/ \E quitOk \in BOOLEAN :
            /\ 1 + QuitCost(quitOk) <= Budget
            /\ faults' = faults + 1 + QuitCost(quitOk)
            /\ ResetEarlyReturn(record(step_results, "Click_SaveContinue", "FAIL"),
                                quitOk)
            /\ UNCHANGED response
       \/ \E answer \in Responses :
            /\ response' = answer
            /\ step_results' = record(step_results, "Click_SaveContinue", "PASS")
            /\ pc' = "rs_verify"
            /\ UNCHANGED <<driver, quits, faults>>
    /\ UNCHANGED flow
    /\ UNCHANGED otpVars

\* if verify_page_change("Sign In", 20): PASS; elif detect_error_message():
\* FAIL; else: PASS.  Then the finally clause.
ResetVerify ==
    /\ pc = "rs_verify"
    /\ UNCHANGED unitsButWait
    /\ \E ret \in VerifyReturns :
        /\ wait' = Verified(SignInKw, ret)
        /\ Finally(record(step_results, "Reset Password Flow",
                          IF ret = "true" THEN "PASS"
                          ELSE IF detect_error_message(response) THEN "FAIL"
                          ELSE "PASS"),
                   quits)
    /\ UNCHANGED <<flow, faults, acts, response>>
    /\ UNCHANGED otpVars

---------------------------------------------------------------------------
(* flow_signin *)

\* Launch screenshot, best-effort "Allow", find_and_click("Sign In").
SigninOpen ==
    /\ pc = "si_open"
    /\ UNCHANGED unitVars
    /\ acts' = acts + 1
    /\ \E e \in ClickEnvs :
        /\ ClickCost(e) <= Budget
        /\ faults' = faults + ClickCost(e)
        /\ IF find_and_click_ok(e)
           THEN /\ step_results' = find_and_click(step_results, "Signin_Open", e)
                /\ pc' = "si_email"
                /\ UNCHANGED <<driver, quits>>
           ELSE SigninEarlyReturn(find_and_click(step_results, "Signin_Open", e))
    /\ UNCHANGED <<flow, response>>
    /\ UNCHANGED otpVars

\* Look the email field up (two ways); enter_text(email_field, login_email).
SigninEmail ==
    /\ pc = "si_email"
    /\ UNCHANGED unitVars
    /\ acts' = acts + 1
    /\ \/ /\ SigninEarlyReturn(record(step_results, "Signin_Email", "FAIL"))
          /\ UNCHANGED faults
       \/ \E e \in EnterEnvs :
            /\ EnterCost(e) <= Budget
            /\ faults' = faults + EnterCost(e)
            /\ step_results' =
                 enter_text(step_results, <<"login_email">>, "Signin_Email", e)
            /\ pc' = "si_password"
            /\ UNCHANGED <<driver, quits>>
    /\ UNCHANGED <<flow, response>>
    /\ UNCHANGED otpVars

\* Look the password field up; enter_text; find_and_click("Submit").
SigninPassword ==
    /\ pc = "si_password"
    /\ UNCHANGED unitVars
    /\ acts' = acts + 1
    /\ \/ /\ SigninEarlyReturn(record(step_results, "Signin_Password", "FAIL"))
          /\ UNCHANGED <<faults, response>>
       \/ \E e \in EnterEnvs, c \in ClickEnvs, answer \in Responses :
            /\ EnterCost(e) + ClickCost(c) <= Budget
            /\ response' = Answer(c, answer, response)
            /\ faults' = faults + EnterCost(e) + ClickCost(c)
            /\ step_results' =
                 find_and_click(enter_text(step_results, <<"login_password">>,
                                           "Signin_Password", e),
                                "Signin_Submit", c)
            /\ pc' = "si_finish"
            /\ UNCHANGED <<driver, quits>>
    /\ UNCHANGED flow
    /\ UNCHANGED otpVars

\* Optional biometric "Skip", detect_error_message(), the summary entry and
\* the finally clause.
SigninFinish ==
    /\ pc = "si_finish"
    /\ UNCHANGED unitVars
    /\ acts' = acts + 1
    /\ \E skip \in BOOLEAN :
        LET r1 == IF skip THEN record(step_results, "Biometric", "PASS")
                  ELSE step_results
            r2 == record(r1, "Sign-In",
                         IF detect_error_message(response) THEN "FAIL" ELSE "PASS")
        IN Finally(r2, quits)
    /\ UNCHANGED <<flow, faults, response>>
    /\ UNCHANGED otpVars

---------------------------------------------------------------------------
(* Properties *)

\* C1: in every flow run that created its session, quit() is called on that
\* session exactly once by the time the flow has returned.
C1_QuitExactlyOnce == pc = "done" => quits = 1

\* C2: no exception escapes the top-level call of a flow, the creation of
\* the session included.
C2_NoExceptionEscapes == pc # "raised"

\* C3: a run in which some stage appended a FAIL entry ends with a FAIL entry.
C3_FailedRunEndsFail ==
    (pc = "done" /\ HasFail(step_results)) => LastStatus(step_results) = "FAIL"

\* C4: in flow_signup, once a stage has reported failure no later step looks
\* up, clicks or types on the session.
C4_SignupHaltsOnFailure ==
    [][(flow = "signup" /\ HasFail(step_results)) => acts' = acts]_vars

\* C5: the Negative OTP entry is PASS when the application rejected the
\* negative code and FAIL when it accepted it.
C5_NegativeOtpVerdict ==
    pc = "su_fetch" =>
        /\ step_results[Len(step_results)].step = "Negative OTP"
        /\ response = "rejected" => LastStatus(step_results) = "PASS"
        /\ response = "accepted" => LastStatus(step_results) = "FAIL"

\* C6: in one call of enter_and_verify_otp, and so in one flow run, the real
\* code is submitted at most OTP_MAX_ATTEMPTS times.
C6_SubmitsBounded == submits <= OTP_MAX_ATTEMPTS

\* C6 witness: every attempt of a call submitted the code and the call failed.
C6_Witness == submits = OTP_MAX_ATTEMPTS /\ otp_ok = "false"

\* C7: when enter_and_verify_otp has returned failure, the next step of the
\* flow appends a FAIL entry and returns without looking up, clicking or
\* typing on the session.
C7_OtpFailureIsFatal ==
    [][otp_ok = "false" =>
          /\ acts' = acts
          /\ pc' = "done"
          /\ Len(step_results') > Len(step_results)
          /\ LastStatus(step_results') = "FAIL"
          /\ submits' = submits]_vars

\* C7 witness: a flow that returned after the protocol exhausted its attempts.
C7_Witness ==
    /\ otp_ok = "false"
    /\ pc = "done"
    /\ flow \in {"signup", "reset"}
    /\ LastStatus(step_results) = "FAIL"

\* C8: Submit is clicked only when the complete rendered values of the
\* fields, concatenated, equal the expected code.
C8_SubmitOnlyIfRenderedMatches ==
    (pc = "otp_detect" /\ clicked) => Rendered(texts) = Code4(otp)

\* C9: enter_and_verify_otp returns success only after an attempt whose
\* Submit click succeeded.
C9_SuccessNeedsSubmit ==
    [][(otp_ok # "true" /\ otp_ok' = "true") => clicked]_vars

\* C10: with exactly one field discovered the whole code is typed into it;
\* with several, field i receives digit i and nothing else.
C10_SingleFieldGetsWholeCode ==
    pc = "otp_check" =>
        /\ nfields = 1 => typed[1] = << Code4(otp) >>
        /\ nfields > 1 =>
             \A i \in TypedFields(nfields, otp) :
                \A k \in 1..Len(typed[i]) : typed[i][k] = <<otp[i]>>

C22_ResetStagesInOrder ==
    [][flow = "reset" =>
        /\ pc = "rs_fetch" => wait = Verified(EnterOtpKw, "true")
        /\ otp' # otp => pc = "rs_fetch"
        /\ (attempt = 0 /\ attempt' = 1) => (pc = "rs_fetched" /\ otp \in OtpCodes)
        /\ pc = "rs_save" => wait = Verified(ResetPasswordKw, "true")
        /\ (pc \in {"rs_wait_otp", "rs_password_page"} /\ wait'.ret = "absent")
             => /\ pc' = "done"
                /\ Len(step_results') > Len(step_results)
                /\ LastStatus(step_results') = "FAIL"
                /\ acts' = acts
                /\ otp' = otp
                /\ attempt' = 0
                /\ submits' = submits
                /\ ~HasEntry(step_results', "Click_SaveContinue", "PASS")]_vars

\* C22 witness: the code was fetched and accepted, then the wait for the
\* password-reset screen returned false and the flow returned with FAIL.
C22_Witness ==
    /\ flow = "reset" /\ pc = "done"
    /\ otp \in OtpCodes /\ otp_ok = "true"
    /\ wait = Verified(ResetPasswordKw, "absent")
    /\ HasEntry(step_results, "Password Page", "FAIL")

\* C23: a flow_reset_password run whose last wait did not see "Sign In" and
\* whose page shows no error keyword does not end with a PASS entry: its last
\* entry is WARN or FAIL.
C23_AmbiguityIsNotPass ==
    (/\ flow = "reset" /\ pc = "done"
     /\ wait = Verified(SignInKw, "absent")
     /\ ~detect_error_message(response))
        => LastStatus(step_results) \in {"WARN", "FAIL"}

\* The labels under which the flows call enter_text.
EnterLabels ==
    {"Signup_Email", "Signup_Password", "Signup_ConfirmPassword", "Contact_Name",
     "Contact_Phone", "Social_Link_1", "Social_Link_2", "Reset_Email",
     "Signin_Email", "Signin_Password"}

\* The entry was recorded by a handler of an exception of the session:
\* `except Exception as e` of enter_and_verify_otp ("OTP Entry Error") or of
\* enter_text ("Enter failed: {e}").
RaisedEntry(r) ==
    \/ r.step = "OTP Entry Error"
    \/ r.step \in EnterLabels /\ r.status = "FAIL"

\* C24: a step in which a call on the session raised appends the diagnostic
\* as a FAIL entry, and the flow has returned with its session quit when the
\* step ends, so that no later stage acts on the session.
C24_RaiseFailsAndHalts ==
    [][\A i \in (Len(step_results) + 1)..Len(step_results') :
          RaisedEntry(step_results'[i])
             => /\ step_results'[i].status = "FAIL"
                /\ pc' = "done"
                /\ driver' = "quit"
                /\ quits' >= 1]_vars

\* C37: a flow_reset_password run that reached its last stage with an error
\* keyword in the page content shown after the save action ends with a FAIL
\* entry, whether or not the content holds "Sign In" too.
C37_ErrorShownIsFail ==
    (/\ flow = "reset" /\ pc = "done"
     /\ wait.pc = "returned" /\ wait.keyword = SignInKw
     /\ detect_error_message(response))
        => LastStatus(step_results) = "FAIL"

\* s is t cut after its first Len(s) entries.
IsPrefix(s, t) == Len(s) <= Len(t) /\ SubSeq(t, 1, Len(s)) = s

\* C31: the StepResult sequence of a flow run is append-only: every step of
\* the run leaves the entries already recorded where and as they are and
\* only adds entries after them, and a call of record() gives the list it was
\* given followed by exactly one entry, the one recorded.
C31_AppendOnly ==
    [][/\ IsPrefix(step_results, step_results')
       /\ \A status \in {"PASS", "FAIL", "WARN"} :
             /\ Len(record(step_results, "Step", status)) = Len(step_results) + 1
             /\ IsPrefix(step_results, record(step_results, "Step", status))
             /\ record(step_results, "Step", status)[Len(step_results) + 1]
                  = Rec("Step", status)]_vars

\* C31 witness: a flow_signup run that recorded entries, then met an
\* exception, recorded it in its handler and returned through the finally
\* clause.
C31_Witness ==
    /\ flow = "signup" /\ pc = "done"
    /\ Len(step_results) >= 4
    /\ step_results[Len(step_results)] = Rec("Sign-Up Flow", "FAIL")

---------------------------------------------------------------------------
Next ==
    \/ FlowStart
    \/ OtpEnter
    \/ OtpSubmit
    \/ OtpDetect
    \/ OtpExhausted
    \/ SignupFindEmail
    \/ SignupEnterEmail
    \/ SignupNegativeOtp
    \/ SignupFetchOtp
    \/ SignupCheckOtp
    \/ SignupAfterOtp
    \/ SignupPassword
    \/ SignupProfile
    \/ SignupSocial
    \/ ResetOpen
    \/ ResetEmail
    \/ ResetWaitOtpPage
    \/ ResetFetchOtp
    \/ ResetCheckOtp
    \/ ResetAfterOtp
    \/ ResetPasswordPage
    \/ ResetSave
    \/ ResetVerify
    \/ SigninOpen
    \/ SigninEmail
    \/ SigninPassword
    \/ SigninFinish

Spec == Init /\ [][Next]_vars

---------------------------------------------------------------------------
(* flow_signup on its own, the clock reading of the run drawn in Init. *)

InitSignup ==
    /\ flow = "signup"
    /\ pc = "start"
    /\ driver = "none"
    /\ quits = 0
    /\ step_results = <<>>
    /\ faults = 0
    /\ acts = 0
    /\ response = "none"
    /\ otp = <<>>
    /\ otp_ok = "none"
    /\ attempt = 0
    /\ nfields = 0
    /\ typed = <<>>
    /\ texts = <<>>
    /\ entered = <<>>
    /\ clicked = FALSE
    /\ submits = 0
    /\ IdleBut("signup")
    /\ signup \in { [SignupIdle EXCEPT !.ts = t] : t \in Timestamps }

NextSignup ==
    \/ FlowStart
    \/ OtpEnter
    \/ OtpSubmit
    \/ OtpDetect
    \/ OtpExhausted
    \/ SignupFindEmail
    \/ SignupEnterEmail
    \/ SignupNegativeOtp
    \/ SignupFetchOtp
    \/ SignupCheckOtp
    \/ SignupAfterOtp
    \/ SignupPassword
    \/ SignupProfile
    \/ SignupSocial

SpecSignup == InitSignup /\ [][NextSignup]_vars

\* The details of the entry of this step and status, <<>> when there is none.
DetailsOf(results_list, step, status) ==
    IF HasEntry(results_list, step, status)
    THEN results_list[CHOOSE i \in 1..Len(results_list) :
                        results_list[i].step = step /\ results_list[i].status = status
                     ].details
    ELSE <<>>

\* C29: a flow_signup run that returned with every stage passed (the email
\* entered, the real code fetched and accepted, the same password typed into
\* both password fields, no FAIL entry) ends with the entry PASS "Sign-Up Flow"
\* whose details are "Completed for " and the address that enter_text typed
\* into the email field.
C29_CompletedForTheTypedEmail ==
    (/\ flow = "signup" /\ pc = "done"
     /\ ~HasFail(step_results)
     /\ HasEntry(step_results, "Signup_Email", "PASS")
     /\ otp \in OtpCodes /\ otp_ok = "true"
     /\ HasEntry(step_results, "Signup_Password", "PASS")
     /\ DetailsOf(step_results, "Signup_ConfirmPassword", "PASS")
          = DetailsOf(step_results, "Signup_Password", "PASS"))
        => \E t \in Timestamps :
              /\ DetailsOf(step_results, "Signup_Email", "PASS")
                   = EnteredDetails(EmailId(t))
              /\ step_results[Len(step_results)]
                   = RecWith("Sign-Up Flow", "PASS", <<"Completed for ">> \o EmailId(t))

\* C29 witness: a run with every stage passed, at the later clock reading.
C29_Witness ==
    /\ flow = "signup" /\ pc = "done"
    /\ ~HasFail(step_results)
    /\ otp \in OtpCodes /\ otp_ok = "true"
    /\ HasEntry(step_results, "Signup_ConfirmPassword", "PASS")
    /\ HasEntry(step_results, "Sign-Up Flow", "PASS")
    /\ signup.ts # SignupIdle.ts

---------------------------------------------------------------------------
(* flow_signup and flow_reset_password with the address of the run drawn in *)
(* Init, on sessions that inject no transient fault: what varies is the     *)
(* address, what the application answers and what the poller returns.       *)

\* Values of the argument reset_email.
ResetEmails ==
    {DefaultResetEmail, <<"qa.reset", "@", "mailinator.com">>,
     <<"odd", "@", "name", "@", "mailinator.com">>}

InitIdentity ==
    /\ flow \in {"signup", "reset"}
    /\ pc = "start"
    /\ driver = "none"
    /\ quits = 0
    /\ step_results = <<>>
    /\ faults = MaxFaults
    /\ acts = 0
    /\ response = "none"
    /\ otp = <<>>
    /\ otp_ok = "none"
    /\ attempt = 0
    /\ nfields = 0
    /\ typed = <<>>
    /\ texts = <<>>
    /\ entered = <<>>
    /\ clicked = FALSE
    /\ submits = 0
    /\ IdleBut("signup")
    /\ signup \in IF flow = "signup"
                  THEN { [SignupIdle EXCEPT !.ts = t] : t \in Timestamps }
                  ELSE { [SignupIdle EXCEPT !.reset_email = a] : a \in ResetEmails }

NextIdentity ==
    \/ NextSignup
    \/ ResetOpen
    \/ ResetEmail
    \/ ResetWaitOtpPage
    \/ ResetFetchOtp
    \/ ResetCheckOtp
    \/ ResetAfterOtp
    \/ ResetPasswordPage
    \/ ResetSave
    \/ ResetVerify

SpecIdentity == InitIdentity /\ [][NextIdentity]_vars

\* The addresses a run can be about.
Addresses == {EmailId(t) : t \in Timestamps} \cup ResetEmails

\* local is what stands before the first "@" of address.
IsLocalPartOf(local, address) ==
    /\ Len(local) < Len(address)
    /\ SubSeq(address, 1, Len(local)) = local
    /\ address[Len(local) + 1] = "@"
    /\ \A i \in 1..Len(local) : local[i] # "@"

\* The label under which the flow types the address into the email field.
EmailLabel == IF flow = "signup" THEN "Signup_Email" ELSE "Reset_Email"

\* C32: once flow_signup or flow_reset_password has called the poller, the
\* inbox it passed is the local part of the address of the run (email_id,
\* reset_email), and that address is the one enter_text typed into the email
\* field, when it typed one.
C32_InboxOfTheTypedAddress ==
    signup.polled # <<>> =>
        \E a \in Addresses :
            /\ a = (IF flow = "signup" THEN signup.email_id ELSE signup.reset_email)
            /\ IsLocalPartOf(signup.polled, a)
            /\ HasEntry(step_results, EmailLabel, "PASS")
                 => DetailsOf(step_results, EmailLabel, "PASS") = EnteredDetails(a)

\* C32 witness: flow_reset_password typed an address that holds two "@" and
\* called the poller.
C32_Witness ==
    /\ flow = "reset"
    /\ signup.polled # <<>>
    /\ signup.reset_email # DefaultResetEmail
    /\ Len(signup.reset_email) > 3
    /\ HasEntry(step_results, "Reset_Email", "PASS")

---------------------------------------------------------------------------
(* fetch_mailinator_otp: the Inbox Poller.                                 *)
(*                                                                         *)
(* Time is counted in ticks from the call.  One action is one pass of the  *)
(* while loop, from its test to the sleep(interval) or the return.  The    *)
(* headless browser and the inbox are the environment: a message with the  *)
(* expected subject and a four-digit code may arrive before any cycle and  *)
(* stays; every call on the browser may raise.  The inbox is public and    *)
(* keeps its messages: at the call it is empty or holds the message of an  *)
(* earlier run ("old"); a message that arrives is listed first.            *)

\* Bounds: max_wait and interval are drawn from 0..MaxWait and 1..MaxInterval,
\* the browser work of one cycle (get, sleep(3), find_elements, click,
\* sleep(2.2), page_source) takes 1..MaxWork ticks.
MaxWait == 3
MaxInterval == 2
MaxWork == 2

\* What one cycle meets, in the order of the code:
\*   "get_raises"    driver.get or find_elements raises
\*   "no_rows"       the listing shows no row with the subject
\*   "click_raises"  rows[0].click() or page_source raises
\*   "no_number"     the page source read after the click holds no \d{4}
\*   "quit_raises"   a code was extracted and driver.quit() raises
\*   "found"         a code was extracted and driver.quit() returns
CycleOutcomes(inbox) ==
    IF inbox \in {"message", "old"}
    THEN {"get_raises", "click_raises", "no_number", "quit_raises", "found"}
    ELSE {"get_raises", "no_rows"}

\* Mutant of PollerFound: the code is returned without quitting the browser.
PollerFound_NoQuit(p, w) == [p EXCEPT !.pc = "returned", !.ret = "code", !.now = @ + w]

\* print("Extracted OTP"); driver.quit(); return otp
PollerFound(p, w) ==
    [p EXCEPT !.driver = "quit", !.quits = @ + 1, !.pc = "returned",
              !.ret = "code", !.now = @ + w]

\* except Exception as e: print(..); then time.sleep(interval)
PollerCaught(p, w) == [p EXCEPT !.errors = @ + 1, !.now = @ + w + p.interval]

\* while time.time() < deadline
BeforeDeadline(p) == p.now < p.max_wait

\* chrome_opts, otp = None, the Chrome session: when its start raises the call
\* returns None at once; else deadline = time.time() + max_wait.
\* No call is under way.
NoCall ==
    /\ poller.pc = "idle"
    /\ wait.pc = "idle"
    /\ click.pc = "idle"
    /\ login.pc = "idle"
    /\ prompt.pc = "idle"
    /\ enter.pc = "idle"

FetchCall ==
    /\ NoCall
    /\ \E mw \in 0..MaxWait, iv \in 1..MaxInterval, started \in BOOLEAN,
          held \in {"empty", "old"} :
        poller' = IF started
                  THEN [poller EXCEPT !.pc = "loop", !.driver = "open",
                                      !.max_wait = mw, !.interval = iv,
                                      !.inbox = held]
                  ELSE [poller EXCEPT !.pc = "returned", !.ret = "absent",
                                      !.max_wait = mw, !.interval = iv,
                                      !.inbox = held]
    /\ UNCHANGED notPoller

\* One poll cycle.
FetchCycle ==
    /\ poller.pc = "loop"
    /\ BeforeDeadline(poller)
    /\ \E arrived \in {poller.inbox, "message"}, w \in 1..MaxWork :
        \E o \in CycleOutcomes(arrived) :
          LET p == [poller EXCEPT !.cycles = @ + 1, !.inbox = arrived]
          IN poller' =
               CASE o = "found" -> PollerFound(p, w)
                 [] o = "quit_raises" -> PollerCaught([p EXCEPT !.quits = @ + 1], w)
                 [] o \in {"get_raises", "click_raises"} -> PollerCaught(p, w)
                 [] o \in {"no_rows", "no_number"} ->
                        [p EXCEPT !.now = @ + w + p.interval]
    /\ UNCHANGED notPoller

\* After the loop: the timeout screenshot (its exception is swallowed),
\* driver.quit() outside any try, return None.
FetchTimeout ==
    /\ poller.pc = "loop"
    /\ ~BeforeDeadline(poller)
    /\ \E quitOk \in BOOLEAN :
        poller' = IF quitOk
                  THEN [poller EXCEPT !.driver = "quit", !.quits = @ + 1,
                                      !.pc = "returned", !.ret = "absent"]
                  ELSE [poller EXCEPT !.quits = @ + 1, !.pc = "raised"]
    /\ UNCHANGED notPoller

\* C11: a call that started its browser session has quit it when it returns,
\* whatever the exit: code found, max_wait elapsed, after cycles that raised;
\* a call that ends by the exception of the last quit() has called quit() too.
C11_PollerQuitsBeforeReturn ==
    /\ (poller.pc = "returned" /\ poller.driver # "none")
         => (poller.driver = "quit" /\ poller.quits >= 1)
    /\ poller.pc = "raised" => poller.quits >= 1

\* C11 witness: the call returned absent at the deadline after a cycle that
\* raised, its session quit.
C11_Witness ==
    /\ poller.pc = "returned" /\ poller.ret = "absent"
    /\ poller.errors >= 1 /\ poller.driver = "quit"

\* A step that is one poll cycle.
IsCycle == poller'.cycles = poller.cycles + 1

\* C12: the cycle in which a matching message with a code is present returns
\* the code (so no further cycle starts); no cycle starts at or after the
\* deadline; a call that never saw a message returns absent, and only once
\* max_wait has elapsed.
C12_FirstMatchingCycleReturns ==
    [][/\ (IsCycle /\ poller'.inbox = "message")
            => (poller'.pc = "returned" /\ poller'.ret = "code")
       /\ IsCycle => poller.now < poller.max_wait
       /\ (poller.pc = "loop" /\ poller'.pc = "returned" /\ poller'.inbox = "empty")
            => (poller'.ret = "absent" /\ poller.now >= poller.max_wait)]_vars

\* C36: a code that fetch_mailinator_otp returns was read from a message
\* that arrived after the call was made, never from a message that was in
\* the inbox before.
C36_CodeFromANewMessage ==
    (poller.pc = "returned" /\ poller.ret = "code") => poller.inbox = "message"

---------------------------------------------------------------------------
\* The runner as constructed, no flow called.
NoFlow ==
    /\ flow = "signup"
    /\ pc = "start"
    /\ driver = "none"
    /\ quits = 0
    /\ step_results = <<>>
    /\ faults = 0
    /\ acts = 0
    /\ response = "none"
    /\ otp = <<>>
    /\ otp_ok = "none"
    /\ attempt = 0
    /\ nfields = 0
    /\ typed = <<>>
    /\ texts = <<>>
    /\ entered = <<>>
    /\ clicked = FALSE
    /\ submits = 0


---------------------------------------------------------------------------
(* fetch_mailinator_otp, lines 254-268: the code extracted from the page   *)
(* source of the opened message.                                           *)
(*                                                                         *)
(* A page source is a sequence of characters: the digits "1" and "2", the  *)
(* letter "x", the blank " " and "A", which stands for the anchor phrase   *)
(* "Please find your one time password" (word characters at both ends).    *)

\* Bounds: a page source is made of at most MaxPieces pieces; the snippet
\* html[start:start+800] is SnippetLen characters long.
MaxPieces == 5
SnippetLen == 6

Pieces ==
    { <<"1", "2", "1", "2">>, <<"2", "1", "2", "1">>, <<"1", "2">>,
      <<"1", "2", "1", "2", "1">>, <<"x">>, <<" ">>, <<"A">> }

RECURSIVE Concat(_)
Concat(ps) == IF ps = <<>> THEN <<>> ELSE Head(ps) \o Concat(Tail(ps))

Htmls == { Concat(ps) : ps \in UNION { [1..k -> Pieces] : k \in 0..MaxPieces } }

IsDigit(c) == c \in {"1", "2"}

\* \w
IsWord(c) == c \in {"1", "2", "x", "A"}

\* \b\d{4}\b matches at position i of s
MatchAt(s, i) ==
    /\ i + 3 <= Len(s)
    /\ \A k \in i..(i + 3) : IsDigit(s[k])
    /\ (i = 1 \/ ~IsWord(s[i - 1]))
    /\ (i + 4 > Len(s) \/ ~IsWord(s[i + 4]))

Matches(s) == { i \in 1..Len(s) : MatchAt(s, i) }

MinOf(S) == CHOOSE i \in S : \A j \in S : i <= j

\* re.search(r"(\b\d{4}\b)", s): the first match, <<>> for None
Search(s) ==
    IF Matches(s) = {} THEN <<>>
    ELSE SubSeq(s, MinOf(Matches(s)), MinOf(Matches(s)) + 3)

\* html.find("Please find your one time password"), 0 for -1
Find(html) ==
    IF \E i \in 1..Len(html) : html[i] = "A"
    THEN MinOf({ i \in 1..Len(html) : html[i] = "A" })
    ELSE 0

\* html[start:start+800] if start != -1 else html
Snippet(html) ==
    IF Find(html) # 0
    THEN SubSeq(html, Find(html), Min(Find(html) + SnippetLen - 1, Len(html)))
    ELSE html

\* m = re.search(.., snippet); if m: return; m2 = re.search(.., html); if m2: return
ExtractOtp(html) ==
    IF Search(Snippet(html)) # <<>> THEN Search(Snippet(html)) ELSE Search(html)

\* html = driver.page_source or ""; .. otp = m.group(1)
ExtractCode ==
    /\ message.pc = "opened"
    /\ message' = [message EXCEPT !.pc = "extracted", !.otp = ExtractOtp(message.html)]
    /\ UNCHANGED notMessage

\* The four-digit numbers of the content that lie near the anchor: within
\* the SnippetLen characters that start at the anchor.
NearAnchor(html) ==
    { i \in Matches(html) :
        Find(html) # 0 /\ i >= Find(html) /\ i + 3 <= Find(html) + SnippetLen - 1 }

\* C13: the extracted code is the first four-digit number near the anchor
\* when there is one, and only otherwise the first four-digit number anywhere
\* in the content (absent when there is none).
C13_AnchorFirst ==
    message.pc = "extracted" =>
        LET html == message.html
        IN IF NearAnchor(html) # {}
           THEN message.otp = SubSeq(html, MinOf(NearAnchor(html)),
                                     MinOf(NearAnchor(html)) + 3)
           ELSE IF Matches(html) # {}
                THEN message.otp = SubSeq(html, MinOf(Matches(html)),
                                          MinOf(Matches(html)) + 3)
                ELSE message.otp = <<>>

InitExtract ==
    /\ NoFlow
    /\ IdleBut("message")
    /\ message \in { [pc |-> "opened", html |-> h, otp |-> <<>>] : h \in Htmls }

SpecExtract == InitExtract /\ [][ExtractCode]_vars

---------------------------------------------------------------------------
(* main(): the three flows one after the other on one runner. *)

\* A flow returned to main and another follows: flow_signin when the login
\* credentials were given, else results_signin = [SKIP] and
\* flow_reset_password.  The next flow starts with locals of its own.
MainNextFlow ==
    /\ main.pc = "running"
    /\ pc = "done"
    /\ flow \in {"signup", "signin"}
    /\ \E creds \in (IF flow = "signup" THEN BOOLEAN ELSE {FALSE}) :
        LET returned == [main EXCEPT !.results[flow] = step_results]
        IN IF creds
           THEN /\ flow' = "signin"
                /\ main' = returned
           ELSE /\ flow' = "reset"
                /\ main' = IF flow = "signup"
                           THEN [returned EXCEPT
                                   !.results["signin"] = <<Rec("SignIn", "SKIP")>>]
                           ELSE returned
    /\ pc' = "start"
    /\ step_results' = <<>>
    /\ quits' = 0
    /\ acts' = 0
    /\ response' = "none"
    /\ otp' = <<>>
    /\ otp_ok' = "none"
    /\ attempt' = 0
    /\ nfields' = 0
    /\ typed' = <<>>
    /\ texts' = <<>>
    /\ entered' = <<>>
    /\ clicked' = FALSE
    /\ submits' = 0
    /\ UNCHANGED <<driver, faults>>
    /\ UNCHANGED notMain

\* An exception left a flow: except Exception: print; return 2.
MainFatal ==
    /\ main.pc = "running"
    /\ pc = "raised"
    /\ main' = [main EXCEPT !.pc = "returned_2"]
    /\ UNCHANGED flowVars
    /\ UNCHANGED notMain

\* flow_reset_password returned: save_results_excel, zip_screenshots,
\* send_email, return 0; an exception of these: return 2.
MainDone ==
    /\ main.pc = "running"
    /\ pc = "done"
    /\ flow = "reset"
    /\ \E saved \in BOOLEAN :
        LET returned == [main EXCEPT !.results[flow] = step_results]
        IN main' = [returned EXCEPT
                      !.report = <<returned.results>>,
                      !.pc = IF saved THEN "returned_0" ELSE "returned_2"]
    /\ UNCHANGED flowVars
    /\ UNCHANGED notMain

HasFetchFail(results_list) ==
    \E i \in 1..Len(results_list) : results_list[i] = Rec("Fetch OTP", "FAIL")

\* C14: when the poller returned absent, the flow's next step records FAIL
\* "Fetch OTP", enters no code, quits the session and returns; and a run of
\* main whose Sign-Up met an absent poller has executed the flows that follow
\* up to flow_reset_password when main returns.
C14_AbsentFailsTheStageOnly ==
    [][/\ (pc \in {"su_fetched", "rs_fetched"} /\ otp = <<>>)
            => /\ pc' = "done"
               /\ HasFetchFail(step_results')
               /\ attempt' = 0 /\ acts' = acts
               /\ quits' >= 1 /\ driver' = "quit"
       /\ (main.pc = "running" /\ main'.pc # "running"
           /\ HasFetchFail(main.results["signup"]))
            => flow = "reset"]_vars

\* C27: when main has returned, save_results_excel was called, with the
\* results lists of the runner as they are at the end of the run, which hold
\* the list of every flow that returned.
C27_ResultsReachTheReport ==
    main.pc \in {"returned_0", "returned_2"}
        => (main.report # <<>> /\ main.report[1] = main.results)

\* C38: in a run of main, a flow creates its session only when the session
\* of the flow before it, if there was one, has been quit: no two sessions
\* are open at a time.
C38_OneSessionAtATime ==
    [][(pc = "start" /\ driver' = "open") => driver \in {"none", "quit"}]_vars

\* C38 witness: flow_reset_password has its session open after flow_signup
\* and flow_signin ran and returned.
C38_Witness ==
    /\ main.pc = "running"
    /\ flow = "reset" /\ driver = "open"
    /\ main.results["signup"] # <<>>
    /\ Len(main.results["signin"]) >= 2

\* The fields of the runner as constructed, without the fault counter.
NoFlowLocals ==
    /\ flow = "signup"
    /\ pc = "start"
    /\ driver = "none"
    /\ quits = 0
    /\ step_results = <<>>
    /\ acts = 0
    /\ response = "none"
    /\ otp = <<>>
    /\ otp_ok = "none"
    /\ attempt = 0
    /\ nfields = 0
    /\ typed = <<>>
    /\ texts = <<>>
    /\ entered = <<>>
    /\ clicked = FALSE
    /\ submits = 0

\* A run of main is followed on sessions that inject no transient fault:
\* what varies is what the application answers, what the poller returns and
\* whether driver_factory and the report succeed.
InitMain ==
    /\ NoFlowLocals
    /\ faults = MaxFaults
    /\ IdleBut("main")
    /\ main = [MainIdle EXCEPT !.pc = "running"]

NextMain ==
    \/ Next
    \/ MainNextFlow
    \/ MainFatal
    \/ MainDone

SpecMain == InitMain /\ [][NextMain]_vars

---------------------------------------------------------------------------
(* detect_error_message: the keyword scan of the page source.              *)
(*                                                                         *)
(* A page source is a sequence of one-character strings: the letters of    *)
(* the keywords in lower and upper case, "x", "X" and the blank.           *)

\* Bound: the number of upper-case letters put into a keyword of a page
\* source (or all of its letters).
MaxUpper == 2

\* The keywords of line 397.
ErrorKeywords ==
    { <<"i", "n", "v", "a", "l", "i", "d">>,
      <<"i", "n", "c", "o", "r", "r", "e", "c", "t">>,
      <<"e", "r", "r", "o", "r">>,
      <<"p", "l", "e", "a", "s", "e", " ", "e", "n", "t", "e", "r">>,
      <<"n", "o", "t", " ", "v", "a", "l", "i", "d">> }

\* Upper-case letter to lower-case letter, and back.
ToLower ==
    ("A" :> "a") @@ ("C" :> "c") @@ ("D" :> "d") @@ ("E" :> "e") @@ ("I" :> "i")
    @@ ("L" :> "l") @@ ("N" :> "n") @@ ("O" :> "o") @@ ("P" :> "p") @@ ("R" :> "r")
    @@ ("S" :> "s") @@ ("T" :> "t") @@ ("V" :> "v") @@ ("X" :> "x")

ToUpper ==
    ("a" :> "A") @@ ("c" :> "C") @@ ("d" :> "D") @@ ("e" :> "E") @@ ("i" :> "I")
    @@ ("l" :> "L") @@ ("n" :> "N") @@ ("o" :> "O") @@ ("p" :> "P") @@ ("r" :> "R")
    @@ ("s" :> "S") @@ ("t" :> "T") @@ ("v" :> "V") @@ ("x" :> "X")

\* Mutant of LowerChar: the source is scanned as it is, .lower() forgotten.
LowerChar_AsIs(c) == c

LowerChar(c) == IF c \in DOMAIN ToLower THEN ToLower[c] ELSE c

\* str.lower()
Lower(s) == [i \in 1..Len(s) |-> LowerChar(s[i])]

\* k in s
Contains(s, k) ==
    \E i \in 1..(Len(s) - Len(k) + 1) : SubSeq(s, i, i + Len(k) - 1) = k

\* The body of detect_error_message on a page whose page_source raises or
\* returns `source`.
DetectOn(raises, source) ==
    IF raises THEN FALSE
    ELSE \E k \in ErrorKeywords : Contains(Lower(source), k)

\* Page sources: a keyword, or a keyword with its last letter dropped or with
\* its third letter replaced, some letters in upper case, between what
\* precedes and what follows it.
Bodies ==
    ErrorKeywords
    \cup { SubSeq(k, 1, Len(k) - 1) : k \in ErrorKeywords }
    \cup { [k EXCEPT ![3] = "x"] : k \in ErrorKeywords }

UpperChar(c) == IF c \in DOMAIN ToUpper THEN ToUpper[c] ELSE c

Cased(body, mask) ==
    [i \in 1..Len(body) |-> IF i \in mask THEN UpperChar(body[i]) ELSE body[i]]

Masks(n) == { S \in SUBSET (1..n) : Cardinality(S) <= MaxUpper \/ S = 1..n }

Around == { <<>>, <<"x">>, <<"r">>, <<"D">>, <<" ">> }

Sources ==
    UNION { { pre \o Cased(b, mask) \o post :
                pre \in Around, post \in Around, mask \in Masks(Len(b)) } :
            b \in Bodies }

\* src = (self.driver.page_source or "").lower(); the five `in` tests;
\* except: pass; return False
DetectError ==
    /\ page.pc = "called"
    /\ page' = [page EXCEPT !.pc = "returned",
                            !.result = DetectOn(page.raises, page.source)]
    /\ UNCHANGED notPage

\* The content holds the keyword at some place, letter case set aside.
BothCases(c) ==
    {c} \cup (IF c \in DOMAIN ToUpper THEN {ToUpper[c]} ELSE {})
        \cup (IF c \in DOMAIN ToLower THEN {ToLower[c]} ELSE {})

ContainsCI(content, kw) ==
    \E i \in 1..(Len(content) - Len(kw) + 1) :
        \A j \in 1..Len(kw) : content[i + j - 1] \in BothCases(kw[j])

\* C18: detect_error_message returns true exactly when the page content
\* holds one of the five keywords in some letter case; a page that cannot be
\* read has no content and gives false.
C18_KeywordScan ==
    page.pc = "returned" =>
        IF page.raises THEN page.result = FALSE
        ELSE page.result <=> \E kw \in ErrorKeywords : ContainsCI(page.source, kw)

\* C18 witness: true returned for a content that holds a keyword written
\* with upper-case letters.
C18_Witness ==
    /\ page.pc = "returned" /\ page.result
    /\ \E i \in 1..Len(page.source) : page.source[i] \in DOMAIN ToLower
    /\ ~ \E k \in ErrorKeywords : Contains(page.source, k)

InitDetect ==
    /\ NoFlow
    /\ IdleBut("page")
    /\ page \in { [pc |-> "called", raises |-> r, source |-> s, result |-> FALSE] :
                    r \in BOOLEAN, s \in Sources }

SpecDetect == InitDetect /\ [][DetectError]_vars

---------------------------------------------------------------------------
(* The wait primitives: find_by_text, verify_page_change (AinsembleRunner), *)
(* wait_for and find_elements (APKNew), wait_for (APKValidator).           *)
(*                                                                         *)
(* Time is counted in ticks from the call.  One action is one pass of the  *)
(* while loop: the lookup (or page read), which takes 1..MaxLookup ticks,  *)
(* and the sleep of one tick where the code sleeps.                        *)

\* Bounds: timeouts are drawn from 0..MaxTimeout.
MaxTimeout == 3
MaxLookup == 2

\* The primitives that wait for elements.
ElementWaits ==
    {"find_by_text", "APKValidator.wait_for", "APKNew.wait_for", "APKNew.find_elements"}

WaitFns == ElementWaits \cup {"verify_page_change"}

\* What a lookup can do: find_element raises or returns the element;
\* find_elements also returns an empty list; page_source raises or is read.
LookupOutcomes(fn) ==
    CASE fn = "verify_page_change" -> {"raises", "read"}
      [] fn = "APKNew.find_elements" -> {"raises", "match", "empty"}
      [] OTHER -> {"raises", "match"}

\* What a lookup can raise.
Exceptions == {"NoSuchElementException", "WebDriverException"}

\* Keywords and page contents of verify_page_change.
PageKeywords == { <<>>, <<"o", "t", "p">>, <<"O", "t", "p">> }

PageContents ==
    { <<>>, <<"o", "t", "p">>, <<"O", "T", "P">>, <<" ", "o", "T", "p", " ">>,
      <<"o", "t">>, <<"t", "o", "p">> }

\* Mutant of WaitCatches: only the exception of a missing element is caught.
WaitCatches_NotFoundOnly(exc) == exc = "NoSuchElementException"

\* except: (a bare except clause)
WaitCatches(exc) == TRUE

\* Mutant of WaitBeforeDeadline: while True.
WaitBeforeDeadline_Always(w) == TRUE

\* while time.time() < end
WaitBeforeDeadline(w) == w.now < w.timeout

\* Mutant of VerifySees: the keyword is looked for as it was passed.
VerifySees_CaseSensitive(keyword, content) == Contains(content, keyword)

\* keyword = (keyword or "").lower(); src = (page_source or "").lower();
\* keyword in src
VerifySees(keyword, content) == Contains(Lower(content), Lower(keyword))

\* A call of a wait primitive.
WaitCall ==
    /\ NoCall
    /\ \E fn \in WaitFns, t \in 0..MaxTimeout, kw \in PageKeywords :
        /\ fn = "verify_page_change" \/ kw = <<>>
        /\ wait' = [WaitIdle EXCEPT !.pc = "loop", !.fn = fn, !.timeout = t,
                                    !.keyword = kw]
    /\ UNCHANGED notWait

\* The lookup raised: caught, then time.sleep (0.3, 0.4 or 0.5 s); in
\* verify_page_change `pass`, then the time.sleep(0.8) of the loop.
WaitRaised(w, d, exc) ==
    IF WaitCatches(exc)
    THEN [w EXCEPT !.now = @ + d + 1, !.polls = @ + 1, !.errors = @ + 1,
                   !.last = "raises"]
    ELSE [w EXCEPT !.now = @ + d, !.polls = @ + 1, !.errors = @ + 1,
                   !.last = "raises", !.pc = "raised"]

\* The lookup returned an element or a non-empty list: return it.
WaitFound(w, d) ==
    [w EXCEPT !.now = @ + d, !.polls = @ + 1, !.last = "match",
              !.pc = "returned", !.ret = "found"]

\* find_elements returned []: `if els` fails and the loop goes on at once.
WaitEmpty(w, d) == [w EXCEPT !.now = @ + d, !.polls = @ + 1, !.last = "empty"]

\* verify_page_change read the page: return True when the keyword is in it,
\* else time.sleep(0.8).
WaitRead(w, d, content) ==
    IF VerifySees(w.keyword, content)
    THEN [w EXCEPT !.now = @ + d, !.polls = @ + 1, !.last = "read",
                   !.read = content, !.pc = "returned", !.ret = "true"]
    ELSE [w EXCEPT !.now = @ + d + 1, !.polls = @ + 1, !.last = "read",
                   !.read = content]

\* One pass of the loop.
WaitPoll ==
    /\ wait.pc = "loop"
    /\ WaitBeforeDeadline(wait)
    /\ \E d \in 1..MaxLookup, o \in LookupOutcomes(wait.fn) :
        \/ /\ o = "raises"
           /\ \E exc \in Exceptions : wait' = WaitRaised(wait, d, exc)
        \/ /\ o = "match"
           /\ wait' = WaitFound(wait, d)
        \/ /\ o = "empty"
           /\ wait' = WaitEmpty(wait, d)
        \/ /\ o = "read"
           /\ \E content \in PageContents : wait' = WaitRead(wait, d, content)
    /\ UNCHANGED notWait

\* The loop ends at the deadline: return None, [] or False.
WaitExpire ==
    /\ wait.pc = "loop"
    /\ ~WaitBeforeDeadline(wait)
    /\ wait' = [wait EXCEPT !.pc = "returned", !.ret = "absent"]
    /\ UNCHANGED notWait

\* C15: find_by_text, wait_for and find_elements never raise; a poll that
\* finds a match returns it at once, and the absent value is returned only
\* at or after the deadline, no poll having found a match, also when every
\* lookup raised.
C15_WaitsNeverRaise ==
    wait.fn \in ElementWaits =>
        /\ wait.pc # "raised"
        /\ wait.last = "match" => (wait.pc = "returned" /\ wait.ret = "found")
        /\ wait.pc = "returned" =>
             \/ wait.ret = "found" /\ wait.last = "match"
             \/ /\ wait.ret = "absent"
                /\ wait.now >= wait.timeout
                /\ wait.last # "match"

\* C15 witness: find_by_text returned None after polls that all raised.
C15_Witness ==
    /\ wait.fn = "find_by_text" /\ wait.pc = "returned" /\ wait.ret = "absent"
    /\ wait.polls >= 2 /\ wait.errors = wait.polls

\* C16: a bounded wait is never under way later than its timeout plus one
\* poll cycle after the call, and every pass of its loop takes time, so it
\* returns after boundedly many passes.
C16_WaitsBounded ==
    /\ wait.now < wait.timeout + MaxLookup + 1
    /\ wait.polls <= wait.now
    /\ poller.now < poller.max_wait + MaxWork + poller.interval
    /\ poller.cycles <= poller.now

\* C16 witness: verify_page_change returned false after its deadline, the
\* keyword never seen.
C16_Witness ==
    /\ wait.fn = "verify_page_change" /\ wait.pc = "returned"
    /\ wait.ret = "absent" /\ wait.now > wait.timeout /\ wait.polls >= 2

\* C19: verify_page_change returns true at the first poll whose page content
\* holds the keyword in some letter case; it returns false only at or after
\* the deadline, no poll having seen the keyword; a poll whose page read
\* raises does not return true.
C19_VerifyPageChange ==
    wait.fn = "verify_page_change" =>
        /\ wait.pc # "raised"
        /\ (wait.last = "read" /\ ContainsCI(wait.read, wait.keyword))
             => (wait.pc = "returned" /\ wait.ret = "true")
        /\ wait.last = "raises" => wait.ret # "true"
        /\ wait.pc = "returned" =>
             \/ /\ wait.ret = "true"
                /\ wait.last = "read" /\ ContainsCI(wait.read, wait.keyword)
             \/ /\ wait.ret = "absent"
                /\ wait.now >= wait.timeout
                /\ ~(wait.last = "read" /\ ContainsCI(wait.read, wait.keyword))

\* C19 witness: true returned at a later poll, first one raised or missed,
\* for a content in another letter case than the keyword.
C19_Witness ==
    /\ wait.fn = "verify_page_change" /\ wait.pc = "returned" /\ wait.ret = "true"
    /\ wait.polls >= 2 /\ ~Contains(wait.read, wait.keyword)

---------------------------------------------------------------------------
(* find_and_click, statement by statement.  The session's behaviour during *)
(* the call is a ClickEnvs record: whether find_by_text finds the element, *)
(* whether el.click() returns, whether the clickGesture script returns.    *)

ClickCall ==
    /\ NoCall
    /\ \E e \in ClickEnvs : click' = [ClickIdle EXCEPT !.pc = "look", !.env = e]
    /\ UNCHANGED notClick

\* el = self.find_by_text(text); if not el: record FAIL, screenshot,
\* return False
ClickLook ==
    /\ click.pc = "look"
    /\ click' = IF click.env.found
                THEN [click EXCEPT !.pc = "direct"]
                ELSE [click EXCEPT !.pc = "returned", !.recorded = "FAIL",
                                   !.entries = Append(@, "FAIL"), !.ret = "false"]
    /\ UNCHANGED notClick

\* Mutant of ClickDirectRaised: no fallback, the exception of el.click()
\* goes to the outer handler.
ClickDirectRaised_GiveUp(c) ==
    [c EXCEPT !.pc = "returned", !.recorded = "FAIL", !.ret = "false"]

\* except Exception: (after el.click() raised) try the clickGesture script
ClickDirectRaised(c) == [c EXCEPT !.pc = "gesture"]

\* screenshot; el.click()
ClickDirect ==
    /\ click.pc = "direct"
    /\ click' = IF click.env.direct
                THEN [click EXCEPT !.pc = "settle", !.directs = @ + 1]
                ELSE ClickDirectRaised([click EXCEPT !.directs = @ + 1])
    /\ UNCHANGED notClick

\* self.driver.execute_script("mobile: clickGesture", ..); its exception is
\* raised again and caught by the outer handler: record FAIL, screenshot,
\* return False
ClickGesture ==
    /\ click.pc = "gesture"
    /\ click' = IF click.env.gesture
                THEN [click EXCEPT !.pc = "settle", !.gestures = @ + 1]
                ELSE [click EXCEPT !.pc = "returned", !.gestures = @ + 1,
                                   !.recorded = "FAIL",
                                   !.entries = Append(@, "FAIL"), !.ret = "false"]
    /\ UNCHANGED notClick

\* time.sleep(2.2); screenshot; record PASS; return True
ClickSettle ==
    /\ click.pc = "settle"
    /\ click' = [click EXCEPT !.pc = "returned", !.recorded = "PASS",
                               !.entries = Append(@, "PASS"), !.ret = "true"]
    /\ UNCHANGED notClick

\* C17: the gesture click is attempted at most once, and only after the one
\* direct click raised; the call reports success exactly when the element
\* was found and one of the two clicks succeeded, the fallback having been
\* tried whenever the direct click raised.
C17_FallbackOnce ==
    /\ click.gestures <= 1
    /\ click.gestures = 1 =>
         (click.directs = 1 /\ click.env.found /\ ~click.env.direct)
    /\ click.pc = "returned" =>
         /\ (click.ret = "true") <=>
              (click.env.found /\ (click.env.direct \/ click.env.gesture))
         /\ (click.ret = "true") <=> find_and_click_ok(click.env)
         /\ click.recorded = (IF click.ret = "true" THEN "PASS" ELSE "FAIL")
         /\ (click.env.found /\ ~click.env.direct) => click.gestures = 1

\* C17 witness: success reported through the fallback click.
C17_Witness ==
    /\ click.pc = "returned" /\ click.ret = "true"
    /\ click.directs = 1 /\ click.gestures = 1

---------------------------------------------------------------------------
(* enter_text, statement by statement.  The session's behaviour during the *)
(* call: whether el.click(), el.clear(), el.send_keys(value) and            *)
(* save_screenshot return.                                                  *)

\* screenshot(name): save_screenshot is called inside try/except, the
\* exception is printed; the call returns in both cases.
ScreenshotReturns(saved) ==
    IF saved THEN TRUE   \* print(fname)
    ELSE TRUE            \* except Exception as e: print("Screenshot failed")

EnterCall ==
    /\ NoCall
    /\ \E e \in [click : BOOLEAN, clear : BOOLEAN, send : BOOLEAN, shot : BOOLEAN] :
         enter' = [EnterIdle EXCEPT !.pc = "click", !.env = e]
    /\ UNCHANGED notEnter

\* Mutant of EnterCaught: the exception leaves enter_text.
EnterCaught_Escapes(en) == [en EXCEPT !.pc = "raised"]

\* except Exception as e: record FAIL "Enter failed", screenshot, return False
EnterCaught(en) ==
    IF ScreenshotReturns(en.env.shot)
    THEN [en EXCEPT !.pc = "returned", !.entries = Append(@, "FAIL"), !.ret = "false"]
    ELSE [en EXCEPT !.pc = "raised", !.entries = Append(@, "FAIL")]

\* el.click()
EnterClick ==
    /\ enter.pc = "click"
    /\ enter' = IF enter.env.click THEN [enter EXCEPT !.pc = "type"]
                 ELSE EnterCaught(enter)
    /\ UNCHANGED notEnter

\* try: el.clear() except: pass; el.send_keys(value)
EnterType ==
    /\ enter.pc = "type"
    /\ enter' = IF enter.env.send THEN [enter EXCEPT !.pc = "shot"]
                 ELSE EnterCaught(enter)
    /\ UNCHANGED notEnter

\* screenshot; record PASS "Entered: {value}"; return True
EnterRecord ==
    /\ enter.pc = "shot"
    /\ enter' = IF ScreenshotReturns(enter.env.shot)
                 THEN [enter EXCEPT !.pc = "returned",
                                    !.entries = Append(@, "PASS"), !.ret = "true"]
                 ELSE EnterCaught(enter)
    /\ UNCHANGED notEnter

\* A call that returned recorded one entry, PASS with True and FAIL with
\* False.
OneEntry(call) ==
    /\ Len(call.entries) = 1
    /\ call.entries[1] = "PASS" <=> call.ret = "true"
    /\ call.entries[1] = "FAIL" <=> call.ret = "false"

\* C39: a call of find_and_click or of enter_text does not raise; it has
\* recorded nothing until it returns and exactly one entry when it has
\* returned: PASS when it returns True, which it does exactly when the
\* interaction succeeded, FAIL when it returns False.
C39_OneEntryPerCall ==
    /\ click.pc # "raised" /\ enter.pc # "raised"
    /\ click.pc # "returned" => click.entries = <<>>
    /\ enter.pc # "returned" => enter.entries = <<>>
    /\ click.pc = "returned" =>
         /\ OneEntry(click)
         /\ click.ret = "true" <=> find_and_click_ok(click.env)
    /\ enter.pc = "returned" =>
         /\ OneEntry(enter)
         /\ enter.ret = "true" <=> enter_text_ok(enter.env)

\* C39 witness: enter_text returned True although el.clear() raised and the
\* screenshot could not be saved.
C39_Witness ==
    /\ enter.pc = "returned" /\ enter.ret = "true"
    /\ ~enter.env.clear /\ ~enter.env.shot
    /\ enter.entries = <<"PASS">>

---------------------------------------------------------------------------
(* APKNew.is_logged_in.  A lookup of it ends in one of three ways: an       *)
(* element was found, the lookups found nothing until the timeout, or every *)
(* lookup raised until the timeout; wait_for and find_elements return the   *)
(* same absent value in the last two.                                      *)

\* len(indicators)
NumIndicators == 6

LookupEnds == {"found", "timed_out", "raised"}

LoginCall ==
    /\ NoCall
    /\ login' = [LoginIdle EXCEPT !.pc = "indicators"]
    /\ UNCHANGED notLogin

\* for t in indicators: el = self.wait_for(.., timeout=3); if el: return True
LoginIndicator ==
    /\ login.pc = "indicators"
    /\ login.i < NumIndicators
    /\ \E end \in LookupEnds :
        login' = IF end = "found"
                 THEN [login EXCEPT !.i = @ + 1, !.keyword = end,
                                    !.pc = "returned", !.ret = "true"]
                 ELSE [login EXCEPT !.i = @ + 1, !.keyword = end]
    /\ UNCHANGED notLogin

\* find_otp_inputs() is empty exactly when its find_elements(EditText) is.
IsEmpty(end) == end # "found"

\* otp_inputs = self.find_otp_inputs(); submit_buttons = self.find_elements(
\* 'Submit', timeout=2); if not otp_inputs and not submit_buttons: return
\* True; return False
LoginFields ==
    /\ login.pc = "indicators"
    /\ login.i = NumIndicators
    /\ \E o \in LookupEnds, s \in LookupEnds :
        login' = [login EXCEPT !.otp_inputs = o, !.submit_buttons = s,
                               !.pc = "returned",
                               !.ret = IF IsEmpty(o) /\ IsEmpty(s)
                                       THEN "true" ELSE "false"]
    /\ UNCHANGED notLogin

---------------------------------------------------------------------------
(* The best-effort steps: the "Allow" prompt (lines 513-520) and the "Skip" *)
(* prompt (lines 582-591) of flow_signin, and                               *)
(* APKValidator.dismiss_permission_if_any.  Each looks an optional control  *)
(* up with a wait primitive, which returns None both when nothing is found  *)
(* and when its lookups raise, and clicks the control it finds.             *)

PromptFns ==
    {"flow_signin.Allow", "flow_signin.Skip", "APKValidator.dismiss_permission_if_any"}

\* The lookups a step makes, in order: one find_by_text in flow_signin, three
\* wait_for in dismiss_permission_if_any.
NumLookups(fn) == IF fn = "APKValidator.dismiss_permission_if_any" THEN 3 ELSE 1

PromptEnvs(fn) == [at : 0..NumLookups(fn), raises : BOOLEAN, click : BOOLEAN]

\* What the step records when no lookup found a control: nothing in
\* flow_signin, SKIP 'Permission popup' in dismiss_permission_if_any.
AbsentRecord(fn) ==
    IF fn = "APKValidator.dismiss_permission_if_any" THEN "SKIP" ELSE "none"

\* What the step records after a click that returned: nothing for "Allow",
\* PASS "Biometric" for "Skip", PASS 'Permission dismissed'.
ClickedRecord(fn) == IF fn = "flow_signin.Allow" THEN "none" ELSE "PASS"

\* Mutant of PromptClickRaised: the exception of the click leaves the step
\* and reaches the handler of the flow.
PromptClickRaised_Escapes(p) == [p EXCEPT !.pc = "halted", !.recorded = "FAIL"]

\* The click raised.  "Allow": except: pass.  "Skip": except: pass, then the
\* screenshot and PASS "Biometric" as after a click that returned.
\* dismiss_permission_if_any: except Exception as e: FAIL 'Permission popup'.
\* In all three the statement after the step is next.
PromptClickRaised(p) ==
    [p EXCEPT !.pc = "next",
              !.recorded = CASE p.fn = "flow_signin.Allow" -> "none"
                             [] p.fn = "flow_signin.Skip" -> "PASS"
                             [] OTHER -> "FAIL"]

PromptCall ==
    /\ NoCall
    /\ \E fn \in PromptFns :
        \E e \in PromptEnvs(fn) :
          prompt' = [PromptIdle EXCEPT !.pc = "look", !.fn = fn, !.env = e]
    /\ UNCHANGED notPrompt

\* allow_btn = self.find_by_text("Allow", timeout=3); if allow_btn: ..
\* skip_el = self.find_by_text("Skip", timeout=3); if skip_el: ..
\* allow_btn = self.wait_for(..); if allow_btn: ..  (and allow_fg,
\* location_allow)
PromptLook ==
    /\ prompt.pc = "look"
    /\ prompt' =
         IF prompt.env.at = prompt.tried + 1
         THEN [prompt EXCEPT !.tried = @ + 1, !.pc = "click"]
         ELSE IF prompt.tried + 1 = NumLookups(prompt.fn)
              THEN [prompt EXCEPT !.tried = @ + 1, !.pc = "next",
                                  !.recorded = AbsentRecord(prompt.fn)]
              ELSE [prompt EXCEPT !.tried = @ + 1]
    /\ UNCHANGED notPrompt

\* screenshot; the click; sleep; what follows it.
PromptClick ==
    /\ prompt.pc = "click"
    /\ prompt' =
         IF prompt.env.click
         THEN [prompt EXCEPT !.clicks = @ + 1, !.pc = "next",
                             !.recorded = ClickedRecord(prompt.fn)]
         ELSE PromptClickRaised([prompt EXCEPT !.clicks = @ + 1])
    /\ UNCHANGED notPrompt

C26_AbsentIsRecordedSkip ==
    (prompt.pc = "next" /\ prompt.env.at = 0) => prompt.recorded = "SKIP"

---------------------------------------------------------------------------
(* Two flows of one runner run concurrently, one thread each.  The runner  *)
(* has one field self.driver and one field self.step_no (lines 128-133);   *)
(* every helper reaches the session through self.driver.  A step of a      *)
(* thread is one statement group between two points where the other thread *)
(* can run.                                                                *)

\* Bound: the stages a flow runs before it returns.
MaxStages == 2

\* self.driver = driver_factory(): a new session, named after the flow; or
\* driver_factory raises and the exception leaves the flow.
ConcStart(f) ==
    /\ conc.pc[f] = "start"
    /\ \/ conc' = [conc EXCEPT !.driver = f, !.session[f] = "open", !.pc[f] = "run"]
       \/ conc' = [conc EXCEPT !.pc[f] = "raised"]
    /\ UNCHANGED notConc

\* The session a helper called by flow f reaches: self.driver
Session(c, f) == c.driver

\* One stage: a screenshot (file name from self.step_no, save_screenshot,
\* self.step_no += 1) and a call on the session.  On a session that was quit
\* the call raises and the flow goes to its handler.
ConcStage(f) ==
    /\ conc.pc[f] = "run"
    /\ conc.stages[f] < MaxStages
    /\ LET s == Session(conc, f)
           c == [conc EXCEPT !.reads[f] = @ \cup {conc.stepBy},
                             !.step_no = @ + 1, !.stepBy = f,
                             !.acted[f] = @ \cup {s}]
       IN conc' = IF conc.session[s] = "quit"
                  THEN [c EXCEPT !.pc[f] = "handler"]
                  ELSE [c EXCEPT !.stages[f] = @ + 1]
    /\ UNCHANGED notConc

\* The flow returns, from any stage or from its handler: the finally clause
\* calls self.driver.quit() (an exception of it is swallowed).
ConcQuit(f) ==
    /\ conc.pc[f] \in {"run", "handler"}
    /\ LET s == Session(conc, f)
       IN conc' = [conc EXCEPT !.released[f] = @ \cup {s},
                               !.session[s] = "quit", !.pc[f] = "done"]
    /\ UNCHANGED notConc

\* C28: each of two concurrent flows acts only on the session it created,
\* calls quit() only on that session, and reads no value of a runner field
\* that the other flow wrote.
C28_FlowsKeepToTheirOwnSession ==
    \A f \in ConcFlows :
        /\ conc.acted[f] \subseteq {f}
        /\ conc.released[f] \subseteq {f}
        /\ conc.reads[f] \subseteq {f, "init"}

InitConcurrent ==
    /\ NoFlow
    /\ IdleBut("none")

NextConcurrent == \E f \in ConcFlows : ConcStart(f) \/ ConcStage(f) \/ ConcQuit(f)

SpecConcurrent == InitConcurrent /\ [][NextConcurrent]_vars

---------------------------------------------------------------------------
(* One attempt of enter_and_verify_otp up to its comparison (lines 341-375), *)
(* statement by statement, on fields whose behaviour is fixed: whether       *)
(* el.clear() empties a field, whether KEYCODE_DEL deletes its last          *)
(* character, and what send_keys does to its text.  The attempt is run       *)
(* twice on the same fields.                                                 *)

\* _try_backspaces(6)
BackspaceCount == 6

\* What send_keys(ch) does: the character is put after or before the text,
\* replaces it, is ignored, or the call raises.
KeyBehaviours == {"append", "prepend", "replace", "ignore", "raises"}

FieldBehaviours == [clear : BOOLEAN, back : BOOLEAN, keys : KeyBehaviours]

\* What a field can show before the first attempt.
InitialTexts == { <<>>, <<1>>, <<2>>, <<Blank>> }

\* el.clear()
Clear(b, text) == IF b.clear THEN <<>> ELSE text

\* self._try_backspaces(count) with the field focused
TryBackspaces(b, text, count) ==
    IF b.back THEN SubSeq(text, 1, Len(text) - Min(count, Len(text))) ELSE text

\* el.send_keys(ch), when it returns
SendKeys(b, text, ch) ==
    CASE b.keys = "append" -> text \o <<ch>>
      [] b.keys = "prepend" -> <<ch>> \o text
      [] b.keys = "replace" -> <<ch>>
      [] OTHER -> text

\* _clear_field_robust(el, tries): click, clear, read; empty: return; else
\* backspaces and try again.  Its return value is not used.
RECURSIVE ClearFieldRobust(_, _, _)
ClearFieldRobust(b, text, tries) ==
    IF tries = 0 THEN text
    ELSE IF Strip(Clear(b, text)) = <<>> THEN Clear(b, text)
    ELSE ClearFieldRobust(b, TryBackspaces(b, Clear(b, text), BackspaceCount),
                          tries - 1)

\* Mutant of NeedsRetype: the digit is typed again whatever was read back.
NeedsRetype_Always(val, ch) == TRUE

\* if val != ch:
NeedsRetype(val, ch) == val # <<ch>>

\* click; send_keys(ch); val = (text).strip(); if val != ch: clear();
\* send_keys(ch); except Exception: pass
TypeDigit(b, text, ch) ==
    IF b.keys = "raises" THEN text
    ELSE IF NeedsRetype(Strip(SendKeys(b, text, ch)), ch)
         THEN SendKeys(b, Clear(b, SendKeys(b, text, ch)), ch)
         ELSE SendKeys(b, text, ch)

\* The read-backs of the field made by these statements: val, when the
\* first send_keys returned.
ReadBacks(b, text, ch) ==
    IF b.keys = "raises" THEN <<>> ELSE << Strip(SendKeys(b, text, ch)) >>

\* The send_keys calls on the field made by these statements: the first,
\* which may raise, and the one after the clear.
SendCalls(b, text, ch) ==
    IF b.keys = "raises" THEN 1
    ELSE IF NeedsRetype(Strip(SendKeys(b, text, ch)), ch) THEN 2 ELSE 1

\* What field i of n shows after the clearing loop and the typing loop.
AttemptField(b, text, i, n, code) ==
    IF i > 4 THEN text
    ELSE IF i \in TypedFields(n, code)
         THEN TypeDigit(b, ClearFieldRobust(b, text, 2), code[i])
         ELSE ClearFieldRobust(b, text, 2)

\* if entered == otp[:4]
Verdict(ts, code) == IF Entered(ts) = Code4(code) THEN "match" ELSE "mismatch"

\* One attempt: clear the fields, type the digits, re-read, compare.
ReconAttempt ==
    /\ Len(recon.verdicts) < 2
    /\ LET n == Len(recon.texts)
           after == [i \in 1..n |->
                       AttemptField(recon.behaviour, recon.texts[i], i, n, recon.code)]
           cleared == [i \in 1..n |->
                         ClearFieldRobust(recon.behaviour, recon.texts[i], 2)]
           isTyped == [i \in 1..n |-> i \in TypedFields(n, recon.code)]
       IN recon' = [recon EXCEPT
                      !.texts = after,
                      !.verdicts = Append(@, Verdict(after, recon.code)),
                      !.sends = [i \in 1..n |->
                                   IF isTyped[i]
                                   THEN SendCalls(recon.behaviour, cleared[i],
                                                  recon.code[i])
                                   ELSE 0],
                      !.reads = [i \in 1..n |->
                                   IF isTyped[i]
                                   THEN ReadBacks(recon.behaviour, cleared[i],
                                                  recon.code[i])
                                   ELSE <<>>]]
    /\ UNCHANGED notRecon

C34_AtMostTwoKeyEntries ==
    recon.verdicts # <<>> =>
        \A i \in 1..Len(recon.sends) :
            /\ recon.sends[i] <= 2
            /\ recon.sends[i] = 2 =>
                 (recon.reads[i] # <<>> /\ recon.reads[i][1] # <<recon.code[i]>>)
            /\ (recon.reads[i] # <<>> /\ recon.reads[i][1] = <<recon.code[i]>>)
                 => recon.sends[i] = 1
            /\ i \notin TypedFields(Len(recon.sends), recon.code) => recon.sends[i] = 0

\* C34 witness: an attempt in which one field read back its digit and was
\* typed into once, and another read back something else and was typed into
\* twice.
C34_Witness ==
    /\ recon.verdicts # <<>>
    /\ \E i, j \in 1..Len(recon.sends) :
         /\ recon.sends[i] = 1 /\ recon.reads[i] = << <<recon.code[i]>> >>
         /\ recon.sends[j] = 2

InitAttempt ==
    /\ NoFlow
    /\ IdleBut("recon")
    /\ \E code \in OtpCodes, b \in FieldBehaviours, n \in 0..MaxFields :
        \E ts \in [1..n -> InitialTexts] :
          recon = [ReconIdle EXCEPT !.code = code, !.behaviour = b, !.texts = ts]

SpecAttempt == InitAttempt /\ [][ReconAttempt]_vars

---------------------------------------------------------------------------
(* _clear_field_robust, one iteration of its loop per step.  The field and  *)
(* the session are the environment: el.clear() empties the field, leaves it *)
(* as it is or raises; the read of the text returns or raises; the          *)
(* backspaces delete or do not.                                             *)

\* Bound: the argument tries (3 by default, 2 in enter_and_verify_otp).
MaxTries == 3

ClearOutcomes == {"clears", "ignored", "raises"}

\* What a read-back shows: an empty text, blanks only, some text; or the
\* read raises.
Shown(text) ==
    IF text = <<>> THEN "empty" ELSE IF Strip(text) = <<>> THEN "blank" ELSE "text"

\* try: val = (el.get_attribute("text") or el.text or "").strip()
\* except: val = ""
ReadVal(raises, text) == IF raises THEN <<>> ELSE Strip(text)

\* for _ in range(tries): click, clear, read; if val == "": return True;
\* self._try_backspaces(6)
RobustIteration ==
    /\ robust.pc = "loop"
    /\ robust.iters < robust.tries
    /\ \E c \in ClearOutcomes, readRaises \in BOOLEAN, back \in BOOLEAN :
        LET text == IF c = "clears" THEN <<>> ELSE robust.text
            seen == IF readRaises THEN "raised" ELSE Shown(text)
            r == [robust EXCEPT !.iters = @ + 1, !.clears = @ + 1, !.text = text,
                                !.reads = Append(@, seen)]
        IN IF ReadVal(readRaises, text) = <<>>
           THEN /\ back
                /\ robust' = [r EXCEPT !.pc = "returned", !.ret = "true"]
           ELSE robust' =
                  [r EXCEPT !.backs = @ + 1, !.backAfter = Append(@, seen),
                            !.text = TryBackspaces([back |-> back], text,
                                                   BackspaceCount)]
    /\ UNCHANGED notRobust

\* After the loop: return False
RobustExhausted ==
    /\ robust.pc = "loop"
    /\ robust.iters = robust.tries
    /\ robust' = [robust EXCEPT !.pc = "returned", !.ret = "false"]
    /\ UNCHANGED notRobust

\* C35: _clear_field_robust returns true only when the last read-back after
\* a clear showed the field empty; it calls el.clear() at most `tries` times;
\* every call of _try_backspaces follows a read-back that showed text; and a
\* call whose `tries` read-backs all showed text returns false.
C35_TrueOnlyIfSeenEmpty ==
    /\ robust.ret = "true" =>
         (robust.reads # <<>>
          /\ robust.reads[Len(robust.reads)] \in {"empty", "blank"})
    /\ robust.clears <= robust.tries
    /\ \A k \in 1..Len(robust.backAfter) : robust.backAfter[k] = "text"
    /\ (/\ robust.pc = "returned"
        /\ Len(robust.reads) = robust.tries
        /\ \A k \in 1..Len(robust.reads) : robust.reads[k] = "text")
         => robust.ret = "false"

InitClear ==
    /\ NoFlow
    /\ IdleBut("robust")
    /\ \E text \in Texts, tries \in 0..MaxTries :
         robust = [RobustIdle EXCEPT !.pc = "loop", !.text = text, !.tries = tries]

NextClear ==
    \/ RobustIteration
    \/ RobustExhausted

SpecClear == InitClear /\ [][NextClear]_vars

---------------------------------------------------------------------------
(* The element handles of the flows.  A flow is followed as the sequence of *)
(* its statements that obtain a handle, use one, or click a control that    *)
(* changes the view; enter_and_verify_otp is followed in the same way, with *)
(* its loop.  A handle refers to the view it was obtained in.               *)

\* h = find_element(..) / find_elements(..) / find_by_text(..)
Q(h) == [k |-> "query", h |-> h]

\* h.click(), h.clear(), h.send_keys(..), h.get_attribute(..), enter_text(h, ..)
U(h) == [k |-> "use", h |-> h]

\* find_and_click(..): looks its control up itself, clicks it, and the
\* application may show another view.
A == [k |-> "click", h |-> "none"]

\* flow_signup, lines 415-490
SignupOps ==
    <<Q("el"), U("el"), A,
      Q("otp_inputs"), U("otp_inputs"), A,
      [k |-> "otp", h |-> "none"],
      Q("pw_fields"), U("pw_fields"), A,
      Q("contact_inputs"), U("contact_inputs"), A,
      Q("social_inputs"), U("social_inputs"), A>>

\* flow_signin, lines 514-586
SigninOps ==
    <<Q("allow_btn"), U("allow_btn"), A,
      Q("email_field"), U("email_field"),
      Q("password_field"), U("password_field"), A,
      Q("skip_el"), U("skip_el")>>

\* flow_reset_password, lines 619-692: save_btn.click() is a use of the
\* handle and changes the view.
ResetOps ==
    <<A, A, Q("email_field"), U("email_field"), A,
      [k |-> "otp", h |-> "none"],
      Q("pw_fields"), Q("save_btn"), [k |-> "click", h |-> "save_btn"]>>

\* One iteration of enter_and_verify_otp, lines 341-379: query, clear the
\* fields, type with read-back, query again, read `entered`, compare, click
\* Submit, detect_error_message.
OtpOps ==
    <<Q("elems"), U("elems"), U("elems"), Q("elems"), U("elems"),
      [k |-> "compare", h |-> "none"], A, [k |-> "detect", h |-> "none"]>>

FlowOps(f) ==
    CASE f = "signup" -> SignupOps
      [] f = "signin" -> SigninOps
      [] f = "reset" -> ResetOps
      [] OTHER -> <<>>

\* The statement the flow is at.
CurrentOp(hd) ==
    IF hd.j > 0 THEN OtpOps[hd.j]
    ELSE IF hd.i \in 1..Len(FlowOps(hd.flow)) THEN FlowOps(hd.flow)[hd.i]
    ELSE [k |-> "end", h |-> "none"]

Advance(hd) == IF hd.j > 0 THEN [hd EXCEPT !.j = @ + 1] ELSE [hd EXCEPT !.i = @ + 1]

\* Mutant of Obtain: a handle once obtained is kept, the lookup is not made
\* again.
Obtain_Cached(hd, h) ==
    IF hd.got[h] = -1 THEN [hd EXCEPT !.got[h] = hd.view] ELSE hd

\* The lookup gives a handle into the view shown now.
Obtain(hd, h) == [hd EXCEPT !.got[h] = hd.view]

\* A use of the handle: late when it was obtained in another view.
Used(hd, h) == [hd EXCEPT !.late = @ + (IF hd.got[h] = hd.view THEN 0 ELSE 1)]

HandleQuery ==
    /\ CurrentOp(handles).k = "query"
    /\ handles' = Advance(Obtain(handles, CurrentOp(handles).h))
    /\ UNCHANGED notHandles

HandleUse ==
    /\ CurrentOp(handles).k = "use"
    /\ handles' = Advance(Used(handles, CurrentOp(handles).h))
    /\ UNCHANGED notHandles

\* A click of a control that submits, saves or goes on: the view changes,
\* or stays when the click failed or the application refused.
HandleClick ==
    /\ CurrentOp(handles).k = "click"
    /\ \E changed \in BOOLEAN :
        LET hd == IF CurrentOp(handles).h = "none" THEN handles
                  ELSE Used(handles, CurrentOp(handles).h)
        IN handles' = Advance([hd EXCEPT !.view = @ + (IF changed THEN 1 ELSE 0)])
    /\ UNCHANGED notHandles

\* ok = self.enter_and_verify_otp(..): for attempt in range(1, ..)
HandleOtpCall ==
    /\ CurrentOp(handles).k = "otp"
    /\ handles' = [handles EXCEPT !.j = 1, !.attempt = 1]
    /\ UNCHANGED notHandles

\* `continue`, or the end of the loop body: the next iteration, or False is
\* returned and the flow returns.
HandleNextAttempt(hd) ==
    IF MoreAttempts(hd.attempt)
    THEN [hd EXCEPT !.j = 1, !.attempt = @ + 1]
    ELSE [hd EXCEPT !.j = 0, !.attempt = 0, !.i = Len(FlowOps(hd.flow)) + 1]

\* if entered == otp[:4]: ... else: WARN "OTP Mismatch"
HandleCompare ==
    /\ CurrentOp(handles).k = "compare"
    /\ \/ handles' = Advance(handles)
       \/ handles' = HandleNextAttempt(handles)
    /\ UNCHANGED notHandles

\* if self.detect_error_message(): continue; else: return True
HandleDetect ==
    /\ CurrentOp(handles).k = "detect"
    /\ \/ handles' = HandleNextAttempt(handles)
       \/ handles' = [handles EXCEPT !.j = 0, !.attempt = 0, !.i = @ + 1]
    /\ UNCHANGED notHandles

\* C33: no use of a handle is late: every handle that a flow or
\* enter_and_verify_otp uses was obtained in the view shown at the use, that
\* is after the last click that changed the view.
C33_NoHandleAcrossAction ==
    /\ handles.late = 0
    /\ CurrentOp(handles).h # "none"
         => (CurrentOp(handles).k \in {"use", "click"}
               => handles.got[CurrentOp(handles).h] = handles.view)

\* C33 witness: the third attempt of enter_and_verify_otp in flow_signup
\* reads its fields back, the Submit clicks of the attempts before and of
\* the flow having changed the view four times.
C33_Witness ==
    /\ handles.flow = "signup"
    /\ handles.attempt = 3
    /\ handles.j = 5
    /\ handles.view = 4

InitHandles ==
    /\ NoFlow
    /\ IdleBut("handles")
    /\ \E f \in {"signup", "signin", "reset"} :
         handles = [HandlesIdle EXCEPT !.flow = f, !.i = 1]

NextHandles ==
    \/ HandleQuery
    \/ HandleUse
    \/ HandleClick
    \/ HandleOtpCall
    \/ HandleCompare
    \/ HandleDetect

SpecHandles == InitHandles /\ [][NextHandles]_vars

---------------------------------------------------------------------------
(* The calls on their own: a runner that runs no flow. *)

InitCalls ==
    /\ NoFlow
    /\ IdleBut("none")

NextCalls ==
    \/ FetchCall
    \/ FetchCycle
    \/ FetchTimeout
    \/ WaitCall
    \/ WaitPoll
    \/ WaitExpire
    \/ ClickCall
    \/ ClickLook
    \/ ClickDirect
    \/ ClickGesture
    \/ ClickSettle
    \/ LoginCall
    \/ LoginIndicator
    \/ LoginFields
    \/ PromptCall
    \/ PromptLook
    \/ PromptClick
    \/ EnterCall
    \/ EnterClick
    \/ EnterType
    \/ EnterRecord

SpecCalls == InitCalls /\ [][NextCalls]_vars

====
